---- MODULE Spec2Model ----
(***************************************************************************)
(* limitd-redis: a token-bucket rate limiter whose buckets live in Redis.  *)
(*                                                                         *)
(* The model follows one store entry "type:key" (the bucket state S, a     *)
(* hash with fields d and r) and one ERL activation entry E, together     *)
(* with the client of lib/db.js that dispatches commands to the store and *)
(* decodes the replies.  Commands travel through a FIFO of requests, the   *)
(* store runs one script per step (Redis runs a script atomically), and    *)
(* the replies come back through a FIFO of callbacks.  Spec is a caller    *)
(* that awaits each callback before its next call; SpecConc is a burst of  *)
(* takes in flight together.                                               *)
(*                                                                         *)
(* Numbers.  The bucket content is fractional in the scripts (a Lua        *)
(* number).  Here every content is an integer number of units, one unit    *)
(* being 1/Scale token; time is in milliseconds and advances by Quantum,   *)
(* the time in which the slowest modelled rate drips exactly one unit, so  *)
(* that every content of the model is exact.                               *)
(***************************************************************************)
EXTENDS Integers, Sequences, FiniteSets, TLC

\* ---- bounds of the model ------------------------------------------------
Scale == 2              \* units per token (precision of the fractional r)
StdSize == 1            \* size of the modelled bucket types
ErlSize == 3            \* elevated_limits.size of the modelled bucket types
MaxCount == 4           \* largest count a caller passes
MaxTime == 30000        \* the clock of the store stops here (ms)
ConfigGlobalTTL == 15000 \* config.globalTTL passed to the constructor (ms)
NTakers == 4            \* concurrent takes of the concurrency scenario
MaxDebt == 1            \* puts of a negative count stop at r = -MaxDebt tokens

\* ---- program constants --------------------------------------------------
ERL_DEFAULT_ACTIVATION_PERIOD_SECONDS == 15 * 60
DEFAULT_ACTIVATION_PERIOD == 15
MsPerSecond == 1000

Interval == 7500 * Scale      \* the interval (ms) of the modelled rates
Quantum == Interval \div Scale \* one unit drips in this time at 1 token/Interval

Undef == -1                    \* a field that is undefined in the JS object

Min(a, b) == IF a <= b THEN a ELSE b
Max(a, b) == IF a >= b THEN a ELSE b
CeilDiv(a, b) == -((-a) \div b)                  \* Math.ceil(a / b), b > 0
Trunc(u) == IF u >= 0 THEN u \div Scale ELSE -((-u) \div Scale)

VARIABLES
  buckets,     \* this.buckets[type]: the compiled type
  now,         \* the clock of the store (redis TIME), ms
  S,           \* the state entry type:key
  E,           \* the ERL activation entry erlIsActiveKey
  callCounts,  \* this.callCounts.get(type:key): the skip-call cache entry
  requests,    \* commands sent to the store, not yet executed
  replies,     \* callbacks scheduled on the client, not yet run
  last,        \* what the last script run at the store read, computed and wrote
  key,         \* params.key of the calls: the model follows one type:key
  waiting,     \* the wait(params) in progress, if any, and its timer
  granted      \* tokens handed to the caller by conformant results, where counted

vars == <<buckets, now, S, E, callCounts, requests, replies, last, key, waiting, granted>>

\* ---- lib/utils.js: the temporal normaliser ------------------------------
\* A raw bucket definition as the caller writes it.  per_interval = 0 and
\* erl_activation_period_seconds = 0 stand for an absent field (both are
\* falsy in the code), size = Undef for an absent size, and elevated_limits
\* is <<>> when absent and <<definition>> when present.
Raw(size, per_interval, unlimited, skip_n_calls, elevated_limits) ==
  [ size |-> size,
    per_interval |-> per_interval,
    interval |-> IF per_interval > 0 THEN Interval ELSE 0,
    unlimited |-> unlimited,
    skip_n_calls |-> skip_n_calls,
    erl_activation_period_seconds |-> 0,
    elevated_limits |-> elevated_limits ]

\* A rational number <<numerator, denominator>>; <<0, 1>> where the code has
\* an undefined field that it later replaces by 0 (x || 0).
Zero == <<0, 1>>

RECURSIVE NormalizeTemporals(_)
NormalizeTemporals(params) ==
  LET size == IF params.size = Undef THEN params.per_interval ELSE params.size
      rated == params.per_interval > 0
  IN  [ per_interval |-> params.per_interval,
        interval |-> params.interval,
        size |-> size,
        unlimited |-> params.unlimited,
        skip_n_calls |-> params.skip_n_calls,
        ttl |-> IF rated THEN <<size * params.interval, params.per_interval * MsPerSecond>>
                ELSE Zero,
        ms_per_interval |-> IF rated THEN <<params.per_interval, params.interval>> ELSE Zero,
        drip_interval |-> IF rated THEN <<params.interval, params.per_interval>> ELSE Zero,
        elevated_limits |-> IF params.elevated_limits # <<>>
                            THEN <<NormalizeTemporals(params.elevated_limits[1])>>
                            ELSE <<>>,
        erl_activation_period_seconds |->
            IF params.erl_activation_period_seconds = 0
            THEN ERL_DEFAULT_ACTIVATION_PERIOD_SECONDS
            ELSE params.erl_activation_period_seconds ]

\* ---- lib/utils.js: overrides ---------------------------------------------
\* An override definition: its name, the bucket definition it carries, its
\* regular expression ("" when it has none) and its until.  An until is
\* absent, a Date or a number (a timestamp in ms).
NoUntil == [kind |-> "absent", t |-> 0]
OverrideDef(name, def, match, until) ==
  [name |-> name, def |-> def, match |-> match, until |-> until]

\* overrideDef.until after "if (overrideDef.until && !(overrideDef.until
\* instanceof Date)) overrideDef.until = new Date(overrideDef.until)":
\* a falsy until (absent, or the number 0) is left as it is.
untilAsDate(until) ==
  IF until.kind = "timestamp" /\ until.t # 0 THEN [kind |-> "date", t |-> until.t] ELSE until

\* !override.until || override.until >= new Date()
overrideKept(until, current) ==
  LET u == untilAsDate(until)
  IN  \/ u.kind = "absent"
      \/ u.kind = "timestamp" /\ u.t = 0
      \/ u.kind = "date" /\ u.t >= current

\* the override as it is stored in the compiled type
CompileOverride(o) ==
  NormalizeTemporals(o.def) @@ [name |-> o.name, until |-> untilAsDate(o.until), match |-> o.match]

\* new LRU({ max: 50 }) of the regex matches of a type
OVERRIDES_CACHE_MAX == 50

\* normalizeType: the normalised type with its elevated limits, the literal
\* overrides that are kept (type.overrides), the regex overrides that are
\* kept, in definition order (type.overridesMatch), and an empty cache of
\* regex matches.  new Date() is the clock of the model.
NormalizeType(params) ==
  LET type == NormalizeTemporals(params)
      defs == IF "overrides" \in DOMAIN params THEN params.overrides ELSE <<>>
      KeptLiteral(o) == o.match = "" /\ overrideKept(o.until, now)
      KeptMatch(o) == o.match # "" /\ overrideKept(o.until, now)
      literal == SelectSeq(defs, KeptLiteral)
      regex == SelectSeq(defs, KeptMatch)
  IN  type @@ [ overrides |-> [i \in 1 .. Len(literal) |-> CompileOverride(literal[i])],
                overridesMatch |-> [i \in 1 .. Len(regex) |-> CompileOverride(regex[i])],
                overridesCache |-> <<>> ]

\* The bucket types of the model, one per behaviour.
FixedType    == Raw(StdSize, 0, FALSE, 0, <<>>)
DripType     == Raw(StdSize, 1, FALSE, 0, <<>>)
UnlimitedType == Raw(StdSize, 1, TRUE, 0, <<>>)
SkipType     == Raw(StdSize, 0, FALSE, 1, <<>>)
ErlType      == Raw(StdSize, 1, FALSE, 0, <<Raw(ErlSize, 2, FALSE, 0, <<>>)>>)
ErlFixedType == Raw(StdSize, 0, FALSE, 0, <<Raw(ErlSize, 1, FALSE, 0, <<>>)>>)
\* elevated limits together with skip_n_calls
SkipErlType  == Raw(StdSize, 0, FALSE, 1, <<Raw(ErlSize, 1, FALSE, 0, <<>>)>>)
TypeDefs == {FixedType, DripType, UnlimitedType, SkipType, ErlType, ErlFixedType, SkipErlType}

\* this.globalTTL = (config.globalTTL || ms('7d')) / 1000, in seconds
globalTTL == <<ConfigGlobalTTL, MsPerSecond>>

\* ---- the entries of the store -------------------------------------------
NoS == [live |-> FALSE, d |-> 0, r |-> 0, exp |-> 0]
NoE == [live |-> FALSE, exp |-> 0]
NoLast == [cmd |-> "none", count |-> 0, had |-> FALSE, r0 |-> 0, erl0 |-> FALSE,
           refill |-> 0, take |-> 0, enough |-> FALSE, erl1 |-> FALSE,
           set_erl |-> FALSE, at |-> 0]
Nil == Undef      \* a nil reply of the store (a Lua false)

\* delta_ms * tokens_per_ms, in units
DripAmount(delta_ms, tokens_per_ms) == (delta_ms * tokens_per_ms[1] * Scale) \div tokens_per_ms[2]

\* ---- lib/take_elevated.lua ----------------------------------------------
\* mutants of calculateNewBucketContent: the cap at the size forgotten, and
\* the drip counted at one unit per ms whatever the rate
calculateNewBucketContentUncapped(current, tokens_per_ms, bucket_size, current_timestamp_ms) ==
  IF current.live
  THEN current.r + DripAmount(Max(current_timestamp_ms - current.d, 0), tokens_per_ms)
  ELSE bucket_size
calculateNewBucketContentAnyRate(current, tokens_per_ms, bucket_size, current_timestamp_ms) ==
  IF current.live
  THEN Min(current.r + Max(current_timestamp_ms - current.d, 0), bucket_size)
  ELSE bucket_size

\* current is the reply of HMGET d r.  In Lua the number 0 is true, so
\* "current[1] and tokens_per_ms" holds whenever the entry exists and the
\* fixed-bucket branch is never taken: a fixed bucket goes through the drip
\* branch with a drip of 0.
calculateNewBucketContent(current, tokens_per_ms, bucket_size, current_timestamp_ms) ==
  IF current.live
  THEN LET delta_ms == Max(current_timestamp_ms - current.d, 0)
           drip_amount == DripAmount(delta_ms, tokens_per_ms)
       IN  Min(current.r + drip_amount, bucket_size)
  ELSE bucket_size

\* math.ceil(current_timestamp_ms + (bucket_size - content) * drip_interval)
ResetMs(current_timestamp_ms, bucket_size, content, drip_interval) ==
  IF drip_interval[1] > 0
  THEN current_timestamp_ms
       + CeilDiv((bucket_size - content) * drip_interval[1], drip_interval[2] * Scale)
  ELSE 0

\* mutants of enoughTokens: one token too lax, and a strict comparison
enoughTokensLax(content, tokens_to_take) == content + Scale >= tokens_to_take
enoughTokensStrict(content, tokens_to_take) == content > tokens_to_take

\* local enough_tokens = bucket_content_after_refill >= tokens_to_take
enoughTokens(content, tokens_to_take) == content >= tokens_to_take

\* mutant of contentAfterTake: the deduction forgotten
contentAfterTakeKept(content, tokens_to_take, size) == Min(content, size)

\* math.min(content - tokens_to_take, size): the content once the tokens are taken
contentAfterTake(content, tokens_to_take, size) == Min(content - tokens_to_take, size)

\* mutant of contentAfterErlActivation: the whole standard size is charged,
\* whatever was used
contentAfterErlActivationFull(bucket_size, erl_bucket_size, bucket_content_after_refill) ==
  erl_bucket_size - bucket_size

\* used_tokens = bucket_size - bucket_content_after_refill;
\* bucket_content_after_erl_activation = erl_bucket_size - used_tokens
contentAfterErlActivation(bucket_size, erl_bucket_size, bucket_content_after_refill) ==
  LET used_tokens == bucket_size - bucket_content_after_refill
  IN  erl_bucket_size - used_tokens

\* mutant of shouldActivate: the test that E is absent forgotten
shouldActivateAgain(enough_tokens, is_erl_activated, enough_tokens_after_erl_activation) ==
  ~enough_tokens /\ enough_tokens_after_erl_activation

\* "if is_erl_activated == 0 then ... if enough_tokens_after_erl_activation":
\* ERL is activated by a take that the content in effect denies, while E is
\* absent, when the content carried into the elevated bucket admits it
shouldActivate(enough_tokens, is_erl_activated, enough_tokens_after_erl_activation) ==
  ~enough_tokens /\ ~is_erl_activated /\ enough_tokens_after_erl_activation

\* EXPIRE key seconds: the time at which the key is gone
ExpireAt(current_timestamp_ms, seconds) == current_timestamp_ms + seconds * MsPerSecond

\* The script, run on the entries S and E at time current_timestamp_ms with
\* the arguments a.  Sizes and counts are converted to units on entry.
take_elevated(curS, curE, current_timestamp_ms, a) ==
  LET bucket_size == a.bucket_size * Scale
      erl_bucket_size == a.erl_bucket_size * Scale
      tokens_to_take == a.tokens_to_take * Scale
      is_erl_activated == curE.live
      bucket_content_after_refill ==
        IF is_erl_activated
        THEN calculateNewBucketContent(curS, a.erl_tokens_per_ms, erl_bucket_size, current_timestamp_ms)
        ELSE calculateNewBucketContent(curS, a.tokens_per_ms, bucket_size, current_timestamp_ms)
      enough_tokens == enoughTokens(bucket_content_after_refill, tokens_to_take)
      bucket_content_after_erl_activation ==
        contentAfterErlActivation(bucket_size, erl_bucket_size, bucket_content_after_refill)
      enough_tokens_after_erl_activation ==
        enoughTokens(bucket_content_after_erl_activation, tokens_to_take)
      activate == shouldActivate(enough_tokens, is_erl_activated, enough_tokens_after_erl_activation)
      bucket_content_after_take ==
        IF enough_tokens
        THEN IF is_erl_activated
             THEN contentAfterTake(bucket_content_after_refill, tokens_to_take, erl_bucket_size)
             ELSE contentAfterTake(bucket_content_after_refill, tokens_to_take, bucket_size)
        ELSE IF activate
             THEN contentAfterTake(bucket_content_after_erl_activation, tokens_to_take, erl_bucket_size)
             ELSE bucket_content_after_refill
      erl_after == is_erl_activated \/ activate
      reset_ms == IF erl_after
                  THEN ResetMs(current_timestamp_ms, erl_bucket_size, bucket_content_after_take, a.drip_interval)
                  ELSE ResetMs(current_timestamp_ms, bucket_size, bucket_content_after_take, a.drip_interval)
  IN  [ S |-> [live |-> TRUE, d |-> current_timestamp_ms, r |-> bucket_content_after_take,
               exp |-> ExpireAt(current_timestamp_ms, a.ttl)],
        E |-> IF activate
              THEN [live |-> TRUE,
                    exp |-> ExpireAt(current_timestamp_ms, a.erl_activation_period_seconds)]
              ELSE curE,
        raw |-> << bucket_content_after_take,
                   IF enough_tokens \/ activate THEN 1 ELSE Nil,
                   current_timestamp_ms, reset_ms,
                   IF erl_after THEN 1 ELSE 0 >>,
        trace |-> [cmd |-> "takeElevated", count |-> tokens_to_take, had |-> curS.live,
                   r0 |-> curS.r, erl0 |-> is_erl_activated,
                   refill |-> bucket_content_after_refill, take |-> bucket_content_after_take,
                   enough |-> enough_tokens \/ activate, erl1 |-> erl_after,
                   set_erl |-> activate, at |-> current_timestamp_ms] ]

\* ---- lib/take.lua (not part of the sources at hand) ----------------------
\* The refill of the standard take: drip when the bucket refills, the stored
\* r when it is fixed, the size at the first touch.
standardContent(current, tokens_per_ms, bucket_size, current_timestamp_ms) ==
  IF current.live /\ tokens_per_ms[1] > 0
  THEN Min(current.r + DripAmount(Max(current_timestamp_ms - current.d, 0), tokens_per_ms),
           bucket_size)
  ELSE IF current.live
  THEN current.r
  ELSE bucket_size

take_standard(curS, current_timestamp_ms, a) ==
  LET bucket_size == a.bucket_size * Scale
      tokens_to_take == a.tokens_to_take * Scale
      content == standardContent(curS, a.tokens_per_ms, bucket_size, current_timestamp_ms)
      conformant == content >= tokens_to_take
      new_r == IF conformant THEN Min(content - tokens_to_take, bucket_size) ELSE content
      reset_ms == ResetMs(current_timestamp_ms, bucket_size, new_r, a.drip_interval)
  IN  [ S |-> [live |-> TRUE, d |-> current_timestamp_ms, r |-> new_r,
               exp |-> ExpireAt(current_timestamp_ms, a.ttl)],
        raw |-> << new_r, IF conformant THEN 1 ELSE Nil, current_timestamp_ms, reset_ms >>,
        trace |-> [cmd |-> "take", count |-> tokens_to_take, had |-> curS.live,
                   r0 |-> curS.r, erl0 |-> FALSE,
                   refill |-> content, take |-> new_r,
                   enough |-> conformant, erl1 |-> FALSE,
                   set_erl |-> FALSE, at |-> current_timestamp_ms] ]

\* ---- lib/put.lua (not part of the sources at hand) -----------------------
put_script(curS, current_timestamp_ms, a) ==
  LET bucket_size == a.bucket_size * Scale
      tokens_to_add == a.tokens_to_take * Scale
      r == IF curS.live THEN curS.r ELSE bucket_size
      new_r == Min(r + tokens_to_add, bucket_size)
      reset_ms == ResetMs(current_timestamp_ms, bucket_size, new_r, a.drip_interval)
  IN  [ S |-> [live |-> TRUE, d |-> current_timestamp_ms, r |-> new_r,
               exp |-> ExpireAt(current_timestamp_ms, a.ttl)],
        raw |-> << new_r, current_timestamp_ms, reset_ms >>,
        trace |-> [cmd |-> "put", count |-> tokens_to_add, had |-> curS.live,
                   r0 |-> curS.r, erl0 |-> FALSE,
                   refill |-> r, take |-> new_r,
                   enough |-> TRUE, erl1 |-> FALSE,
                   set_erl |-> FALSE, at |-> current_timestamp_ms] ]

\* variant of hmget that removes the entry it read
hmgetDrop(curS) ==
  [ S |-> NoS,
    raw |-> IF curS.live THEN <<1, curS.r, curS.d>> ELSE <<0, 0, 0>>,
    trace |-> NoLast ]

\* HMGET key r d: reads the entry and writes nothing
hmget(curS) ==
  [ S |-> curS,
    raw |-> IF curS.live THEN <<1, curS.r, curS.d>> ELSE <<0, 0, 0>>,
    trace |-> NoLast ]

\* ---- lib/db.js: the client ----------------------------------------------
\* What a caller passes as count: nothing, 'all' or an integer.
Counts == {[tag |-> "absent", v |-> 0], [tag |-> "all", v |-> 0]}
          \cup {[tag |-> "int", v |-> n] : n \in -1 .. MaxCount}

\* The params of a call: count, whether erlIsActiveKey is given, the key; a
\* call with a configOverride has that field as well.
Params == [count : Counts, erlIsActiveKey : BOOLEAN, key : {key}]

\* The keys of the model and the regular expressions of the overrides:
\* o.match.exec(key), with the flag 'i', tabulated on these keys.
DefaultKey == "some_key"
Keys == {DefaultKey, "rx1", "rx2", "RX21", "ab1", "constructor"}
Matches(match, k) ==
  \/ match = "^rx" /\ k \in {"rx1", "rx2", "RX21"}
  \/ match = "1$" /\ k \in {"rx1", "RX21", "ab1"}

\* type.overrides is a plain object: a name it does not define itself is
\* looked up in Object.prototype, where "constructor" is a function, which
\* is truthy and has none of the fields of a descriptor.
InheritedNames == {"constructor"}
ObjectConstructor ==
  [ per_interval |-> 0, interval |-> 0, size |-> Undef, unlimited |-> FALSE,
    skip_n_calls |-> 0, ttl |-> Zero, ms_per_interval |-> Zero, drip_interval |-> Zero,
    elevated_limits |-> <<>>, erl_activation_period_seconds |-> 0,
    name |-> "Object" ]

\* type.overrides[params.key]: <<>> when undefined
fromOverride(type, k) ==
  LET Named(o) == o.name = k
      own == SelectSeq(type.overrides, Named)
  IN  IF own # <<>> THEN <<own[1]>>
      ELSE IF k \in InheritedNames THEN <<ObjectConstructor>>
      ELSE <<>>

\* type.overridesCache && type.overridesCache.get(params.key)
fromCache(type, k) ==
  LET Hit(e) == e.key = k
      hits == SelectSeq(type.overridesCache, Hit)
  IN  IF hits # <<>> THEN <<hits[1].override>> ELSE <<>>

\* _.find(type.overridesMatch, o => o.match.exec(params.key))
fromMatch(type, k) ==
  LET Hit(o) == Matches(o.match, k)
      hits == SelectSeq(type.overridesMatch, Hit)
  IN  IF hits # <<>> THEN <<hits[1]>> ELSE <<>>

\* bucketKeyConfig(type, params): the descriptor a call works with
bucketKeyConfig(type, params) ==
  IF "configOverride" \in DOMAIN params THEN NormalizeTemporals(params.configOverride)
  ELSE IF fromOverride(type, params.key) # <<>> THEN fromOverride(type, params.key)[1]
  ELSE IF fromCache(type, params.key) # <<>> THEN fromCache(type, params.key)[1]
  ELSE IF fromMatch(type, params.key) # <<>> THEN fromMatch(type, params.key)[1]
  ELSE type

\* The type after bucketKeyConfig(type, params): a regex match that was
\* found by the search is in the cache (the least recently used entry goes
\* when the cache is full).
afterBucketKeyConfig(type, params) ==
  IF /\ "configOverride" \notin DOMAIN params
     /\ fromOverride(type, params.key) = <<>>
     /\ fromCache(type, params.key) = <<>>
     /\ fromMatch(type, params.key) # <<>>
  THEN LET entry == [key |-> params.key, override |-> fromMatch(type, params.key)[1]]
           cache == Append(type.overridesCache, entry)
       IN  [type EXCEPT !.overridesCache =
              IF Len(cache) > OVERRIDES_CACHE_MAX THEN Tail(cache) ELSE cache]
  ELSE type

\* variant of _determineCount in which an absent count is 0
determineCountNoDefault(paramsCount, defaultCount, bucketKeyConfigSize) ==
  IF paramsCount.tag = "all" THEN bucketKeyConfigSize
  ELSE IF paramsCount.tag = "int" THEN paramsCount.v
  ELSE 0

\* _determineCount: 'all' is the size, an integer is itself, nothing is the
\* default
determineCount(paramsCount, defaultCount, bucketKeyConfigSize) ==
  IF paramsCount.tag = "all" THEN bucketKeyConfigSize
  ELSE IF paramsCount.tag = "int" THEN paramsCount.v
  ELSE defaultCount

\* Math.ceil of a rational
CeilRat(q) == CeilDiv(q[1], q[2])

\* variant of TtlArg that always takes the global TTL
TtlArgGlobal(config) == CeilRat(globalTTL)

\* Math.ceil(bucketKeyConfig.ttl || this.globalTTL)
TtlArg(config) == IF config.ttl[1] # 0 THEN CeilRat(config.ttl) ELSE CeilRat(globalTTL)

\* The arguments of redis.take / redis.put
TakeArgs(config, count) ==
  [ tokens_per_ms |-> config.ms_per_interval,
    bucket_size |-> config.size,
    tokens_to_take |-> count,
    ttl |-> TtlArg(config),
    drip_interval |-> config.drip_interval,
    erl_tokens_per_ms |-> Zero,
    erl_bucket_size |-> 0,
    erl_activation_period_seconds |-> 0 ]

\* The arguments of redis.takeElevated.  normalizeTemporals keeps no field
\* activation_period_minutes, so the last argument is always the fallback.
TakeElevatedArgs(config, count) ==
  [ TakeArgs(config, count) EXCEPT
      !.erl_tokens_per_ms = config.elevated_limits[1].ms_per_interval,
      !.erl_bucket_size = config.elevated_limits[1].size,
      !.erl_activation_period_seconds = DEFAULT_ACTIVATION_PERIOD ]

NoArgs == TakeArgs(NormalizeTemporals(Raw(0, 0, FALSE, 0, <<>>)), 0)

NoRes == [conformant |-> FALSE, remaining |-> 0, reset |-> 0, limit |-> 0,
          delayed |-> FALSE, erl_activated |-> "absent"]

\* a command on its way to the store, with what its callback closes over
Request(cmd, a, config) == [cmd |-> cmd, a |-> a, config |-> config]

\* the kinds of callback: the reply of a command of the store, a result the
\* client computed by itself (one kind per operation), an error
StoreKinds == {"take", "takeElevated", "put", "hmget"}

\* a callback scheduled on the client
Reply(kind, err, raw, config, res) ==
  [kind |-> kind, err |-> err, raw |-> raw, config |-> config, res |-> res]

\* mutant of isUnlimited: the flag ignored
isUnlimitedIgnored(config) == FALSE

\* if (bucketKeyConfig.unlimited)
isUnlimited(config) == config.unlimited

\* parseInt(x, 10) ? true : false on a reply that is 1 or nil
ParseBool(x) == x # Nil /\ x # 0

\* calculateReset(bucketKeyConfig, remaining, now): remaining is in tokens;
\* a missing or zero time is replaced by the clock of the client.
calculateReset(config, remaining, time) ==
  IF config.per_interval = 0 THEN 0
  ELSE LET t == IF time = 0 THEN now ELSE time
           missing == config.size - remaining
           msToCompletion == CeilDiv(missing * config.drip_interval[1], config.drip_interval[2])
       IN  CeilDiv(t + msToCompletion, MsPerSecond)

\* The result object the callback builds from the reply of the store
\* (parseInt drops the fraction of the remaining).
Decode(reply) ==
  IF reply.kind \notin StoreKinds THEN reply.res
  ELSE IF reply.kind = "take"
  THEN [conformant |-> ParseBool(reply.raw[2]), remaining |-> Trunc(reply.raw[1]),
        reset |-> CeilDiv(reply.raw[4], MsPerSecond), limit |-> reply.config.size,
        delayed |-> FALSE, erl_activated |-> "absent"]
  ELSE IF reply.kind = "takeElevated"
  THEN [conformant |-> ParseBool(reply.raw[2]), remaining |-> Trunc(reply.raw[1]),
        reset |-> CeilDiv(reply.raw[4], MsPerSecond), limit |-> reply.config.size,
        delayed |-> FALSE,
        erl_activated |-> IF ParseBool(reply.raw[5]) THEN "true" ELSE "false"]
  ELSE IF reply.kind = "put"
  THEN [NoRes EXCEPT !.remaining = Trunc(reply.raw[1]),
                     !.reset = IF Len(reply.raw) >= 4
                               THEN CeilDiv(reply.raw[4], MsPerSecond) ELSE Undef,
                     !.limit = reply.config.size]
  ELSE IF reply.kind = "hmget"
  THEN LET parsed == IF reply.raw[1] = 1 THEN Trunc(reply.raw[2]) ELSE reply.config.size
       IN  [NoRes EXCEPT !.remaining = parsed,
                         !.reset = calculateReset(reply.config, parsed,
                                                  IF reply.raw[1] = 1 THEN reply.raw[3] ELSE 0),
                         !.limit = reply.config.size]
  ELSE NoRes

\* the result of the unlimited path of take, put and get
UnlimitedRes(config, isTake) ==
  [NoRes EXCEPT !.conformant = isTake, !.remaining = config.size,
                !.reset = CeilDiv(now, MsPerSecond), !.limit = config.size]

Pending == Len(requests) + Len(replies)

Schedule(reply) == replies' = Append(replies, reply)
Send(request) == requests' = Append(requests, request)

\* this.callCounts = new LRU({ max: 50 })
CALLCOUNTS_MAX == 50

\* The entry of type:key in this.callCounts ({res, count}), none at first;
\* behind is the number of other keys of the cache that were used after
\* this one (the LRU drops the key that was used least recently).
NoCall == [has |-> FALSE, res |-> NoRes, count |-> 0, behind |-> 0]

\* The tokens handed out are counted in the scenario whose callers all pass
\* the same count (granted.count); count 0: not counted.
NoGrants == [count |-> 0, tokens |-> 0]

\* a callback that take invokes itself, before it returns
InCall(reply) == reply @@ [inCall |-> TRUE]

\* What is wrong with the params of a call, if anything: params is
\* undefined or null, has no type, a type that is not configured, no key, a
\* configOverride that is not an object or one with neither size nor
\* interval.
Defects == {"undefined", "null", "type", "unknownType", "key", "configOverride", "configOverrideEmpty"}
Defect(params) == IF "defect" \in DOMAIN params THEN params.defect ELSE "none"

\* validateParams(params, buckets): the code of the error it returns, 0 when
\* it returns none.  typeof null is 'object', so null passes the first test
\* and params.type throws a TypeError (Undef here).
validateParams(params) ==
  LET defect == Defect(params)
  IN  IF defect = "none" THEN 0
      ELSE IF defect = "undefined" THEN 101
      ELSE IF defect = "null" THEN Undef
      ELSE IF defect = "type" THEN 102
      ELSE IF defect = "unknownType" THEN 103
      ELSE IF defect = "key" THEN 104
      ELSE IF defect = "configOverride" THEN 105
      ELSE 106

\* if (valError) return process.nextTick(callback, valError), or the
\* TypeError of validateParams thrown to the caller
Invalid(params) ==
  IF validateParams(params) = Undef
  THEN Reply("throw", TRUE, <<>>, buckets, NoRes)
  ELSE Reply("error", TRUE, <<validateParams(params)>>, buckets, NoRes)

\* _determineCount throws: paramsCount is not 'all', not an integer and not
\* falsy (v = 0 marks the falsy value of a kind: NaN, '', false, 0n)
countThrows(paramsCount) ==
  paramsCount.tag \notin {"absent", "all", "int"} /\ paramsCount.v # 0

\* variant of shouldGoToRedis that allows one skipped call more
shouldGoToRedisLate(prevCall, config) == prevCall.count > config.skip_n_calls

\* const shouldGoToRedis = prevCall?.count >= bucketKeyConfig.skip_n_calls
shouldGoToRedis(prevCall, config) == prevCall.count >= config.skip_n_calls

\* variant of scaledCount that forgets the skipped calls
scaledCountOnce(count, config, found) == count

\* count *= (bucketKeyConfig.skip_n_calls + 1) when there is a cache entry
scaledCount(count, config, found) ==
  IF found THEN count * (config.skip_n_calls + 1) ELSE count

\* No wait in progress
NoParams == [count |-> [tag |-> "absent", v |-> 0], erlIsActiveKey |-> FALSE, key |-> DefaultKey]
NoWait == [phase |-> "idle", params |-> NoParams, due |-> 0, delayed |-> FALSE]

\* take(params, callback), up to the point where it returns.  A take on a
\* type with elevated limits whose resolved descriptor has none reads
\* bucketKeyConfig.elevated_limits.ms_per_interval of undefined: a TypeError
\* is thrown to the caller.
TakeBody(params, cap) ==
  /\ Pending < cap
  /\ IF validateParams(params) # 0
     THEN /\ Schedule(Invalid(params))
          /\ UNCHANGED <<buckets, now, S, E, callCounts, requests, last>>
     ELSE
     /\ buckets' = afterBucketKeyConfig(buckets, params)
     /\ LET bucket == buckets
            config == bucketKeyConfig(bucket, params)
            count == determineCount(params.count, 1, config.size)
            prevCall == callCounts
            found == config.skip_n_calls > 0 /\ prevCall.has
            touched == IF found THEN [prevCall EXCEPT !.behind = 0] ELSE prevCall
            scaled == scaledCount(count, config, found)
        IN  IF countThrows(params.count)
            THEN /\ Schedule(Reply("throw", TRUE, <<>>, config, NoRes))
                 /\ UNCHANGED <<now, S, E, callCounts, requests, last>>
            ELSE IF isUnlimited(config)
            THEN /\ Schedule(Reply("localTake", FALSE, <<>>, config, UnlimitedRes(config, TRUE)))
                 /\ UNCHANGED <<now, S, E, callCounts, requests, last>>
            ELSE IF found /\ ~shouldGoToRedis(prevCall, config)
            THEN /\ callCounts' = [touched EXCEPT !.count = @ + 1]
                 /\ Schedule(Reply("localTake", FALSE, <<>>, config, prevCall.res))
                 /\ UNCHANGED <<now, S, E, requests, last>>
            ELSE IF bucket.elevated_limits # <<>>
            THEN IF ~params.erlIsActiveKey
                 THEN /\ Schedule(InCall(Reply("error", TRUE, <<>>, config, NoRes)))
                      /\ callCounts' = touched
                      /\ UNCHANGED <<now, S, E, requests, last>>
                 ELSE IF config.elevated_limits = <<>>
                 THEN /\ Schedule(Reply("throw", TRUE, <<>>, config, NoRes))
                      /\ callCounts' = touched
                      /\ UNCHANGED <<now, S, E, requests, last>>
                 ELSE /\ Send(Request("takeElevated", TakeElevatedArgs(config, scaled), config))
                      /\ callCounts' = touched
                      /\ UNCHANGED <<now, S, E, replies, last>>
            ELSE /\ Send(Request("take", TakeArgs(config, scaled), config))
                 /\ callCounts' = touched
                 /\ UNCHANGED <<now, S, E, replies, last>>

TakeCall(params, cap) == TakeBody(params, cap) /\ UNCHANGED <<key, waiting, granted>>

\* A caller that awaits each callback before its next call
Take(params) == TakeCall(params, 1)

\* variant of putCount without the cap at the size
putCountUnclamped(paramsCount, config) ==
  determineCount(paramsCount, config.size, config.size)

\* the count put passes: Math.min(this._determineCount({...}), size)
putCount(paramsCount, config) ==
  Min(determineCount(paramsCount, config.size, config.size), config.size)

\* put(params, callback), up to the point where it returns
Put(params) ==
  /\ Pending = 0
  /\ IF validateParams(params) # 0
     THEN /\ Schedule(Invalid(params))
          /\ UNCHANGED <<buckets, now, S, E, callCounts, requests, last, key, waiting, granted>>
     ELSE
     /\ buckets' = afterBucketKeyConfig(buckets, params)
     /\ LET bucket == buckets
            config == bucketKeyConfig(bucket, params)
            count == putCount(params.count, config)
        IN  IF countThrows(params.count)
            THEN /\ Schedule(Reply("throw", TRUE, <<>>, config, NoRes))
                 /\ UNCHANGED <<now, S, E, callCounts, requests, last, key, waiting, granted>>
            ELSE IF isUnlimited(config)
            THEN /\ Schedule(Reply("localPut", FALSE, <<>>, config, UnlimitedRes(config, FALSE)))
                 /\ UNCHANGED <<now, S, E, callCounts, requests, last, key, waiting, granted>>
            ELSE /\ Send(Request("put", TakeArgs(config, count), config))
                 /\ UNCHANGED <<now, S, E, callCounts, replies, last, key, waiting, granted>>

\* get(params, callback), up to the point where it returns
Get(params) ==
  /\ Pending = 0
  /\ IF validateParams(params) # 0
     THEN /\ Schedule(Invalid(params))
          /\ UNCHANGED <<buckets, now, S, E, callCounts, requests, last, key, waiting, granted>>
     ELSE
     /\ buckets' = afterBucketKeyConfig(buckets, params)
     /\ LET bucket == buckets
            config == bucketKeyConfig(bucket, params)
        IN  IF isUnlimited(config)
            THEN /\ Schedule(Reply("localGet", FALSE, <<>>, config, UnlimitedRes(config, FALSE)))
                 /\ UNCHANGED <<now, S, E, callCounts, requests, last, key, waiting, granted>>
            ELSE /\ Send(Request("hmget", NoArgs, config))
                 /\ UNCHANGED <<now, S, E, callCounts, replies, last, key, waiting, granted>>

\* wait(params, callback), up to the point where it returns: a take whose
\* callback is the one of wait
Wait(params) ==
  /\ waiting.phase = "idle"
  /\ TakeBody(params, 1)
  /\ waiting' = [NoWait EXCEPT !.phase = "take", !.params = params]
  /\ UNCHANGED <<key, granted>>

\* minWait of wait: Math.ceil(required * interval / per_interval) with
\* count = params.count || 1.  The result is NaN for count 'all' and for a
\* fixed bucket; setTimeout then waits the least delay, as it does for a
\* delay that is not positive.
minWait(config, params, remaining) ==
  LET count == IF params.count.tag = "int" /\ params.count.v # 0 THEN params.count.v ELSE 1
      required == count - remaining
  IN  IF params.count.tag = "all" \/ config.per_interval = 0 THEN 1
      ELSE Max(CeilDiv(required * config.interval, config.per_interval), 1)

\* the timer of wait fires: wait(params, ...) again, its result is delayed
Retry ==
  /\ waiting.phase = "sleep"
  /\ now >= waiting.due
  /\ TakeBody(waiting.params, 1)
  /\ waiting' = [waiting EXCEPT !.phase = "take", !.delayed = TRUE]
  /\ UNCHANGED <<key, granted>>

\* resetAll(callback): FLUSHDB on the store
ResetAll ==
  /\ Pending = 0
  /\ Send(Request("flushdb", NoArgs, buckets))
  /\ UNCHANGED <<buckets, now, S, E, callCounts, replies, last, key, waiting, granted>>

\* configurateBucket(type, bucket): the type is compiled again
Configure(bucket) ==
  /\ Pending = 0
  /\ buckets' = NormalizeType(bucket)
  /\ UNCHANGED <<now, S, E, callCounts, requests, replies, last, key, waiting, granted>>

\* A script that gets an argument which is not a number (the size of a
\* descriptor that has none) fails at its first comparison, before it
\* writes.
scriptFails(req) == req.cmd \in {"take", "takeElevated", "put"} /\ req.a.bucket_size = Undef

\* The store runs the oldest command: one script, atomically.
StoreExec ==
  /\ requests # <<>>
  /\ LET req == Head(requests)
         out == IF req.cmd = "takeElevated" THEN take_elevated(S, E, now, req.a)
                ELSE IF req.cmd = "take" THEN take_standard(S, now, req.a)
                ELSE IF req.cmd = "put" THEN put_script(S, now, req.a)
                ELSE hmget(S)
     IN  IF req.cmd = "flushdb"
         THEN /\ S' = NoS
              /\ E' = NoE
              /\ last' = last
              /\ Schedule(Reply("flushdb", FALSE, <<>>, req.config, NoRes))
         ELSE IF scriptFails(req)
         THEN /\ UNCHANGED <<S, E, last>>
              /\ Schedule(Reply("error", TRUE, <<>>, req.config, NoRes))
         ELSE /\ out.S.r >= -(MaxDebt * Scale)
              /\ S' = out.S
              /\ E' = IF req.cmd = "takeElevated" THEN out.E ELSE E
              /\ last' = IF req.cmd = "hmget" THEN last ELSE out.trace
              /\ Schedule(Reply(req.cmd, FALSE, out.raw, req.config, NoRes))
  /\ requests' = Tail(requests)
  /\ UNCHANGED <<buckets, now, callCounts, key, waiting, granted>>

\* The client runs the oldest callback.  The callback of a take of wait
\* calls back on an error or a conformant result, and sets the timer
\* otherwise (bucketKeyConfig is called once more there).
\* The callback of a retry sets result.delayed = true on the result object
\* before it passes it on; the object that a take stored in callCounts, or
\* answered from it, is that same object.
Callback ==
  /\ replies # <<>>
  /\ LET reply == Head(replies)
         res == Decode(reply)
         ofWait == waiting.phase = "take"
         retry == ofWait /\ ~reply.err /\ ~res.conformant
         marks == ofWait /\ ~retry /\ ~reply.err /\ waiting.delayed
         marked == IF marks THEN [res EXCEPT !.delayed = TRUE] ELSE res
     IN  /\ callCounts' = IF reply.kind \in {"take", "takeElevated"} /\ ~reply.err /\ reply.config.skip_n_calls > 0
                          THEN [has |-> TRUE, res |-> marked, count |-> 0, behind |-> 0]
                          ELSE IF /\ marks /\ reply.kind = "localTake" /\ callCounts.has
                                  /\ ~isUnlimited(reply.config)
                          THEN [callCounts EXCEPT !.res = marked]
                          ELSE callCounts
         /\ waiting' = IF retry
                       THEN [waiting EXCEPT
                               !.phase = "sleep",
                               !.due = now + minWait(bucketKeyConfig(buckets, waiting.params),
                                                     waiting.params, res.remaining)]
                       ELSE IF ofWait THEN NoWait
                       ELSE waiting
         /\ buckets' = IF retry THEN afterBucketKeyConfig(buckets, waiting.params) ELSE buckets
         /\ granted' = IF granted.count > 0 /\ ~reply.err /\ res.conformant
                       THEN [granted EXCEPT !.tokens = @ + granted.count]
                       ELSE granted
  /\ replies' = Tail(replies)
  /\ UNCHANGED <<now, S, E, requests, last, key>>

\* variant of expired in which a key goes one quantum before its TTL ends
expiredEarly(entry, t) == entry.live /\ entry.exp <= t + Quantum

\* a key whose TTL has elapsed at time t (EXPIRE)
expired(entry, t) == entry.live /\ entry.exp <= t

\* Time passes at the store; a key whose TTL has elapsed is gone.
Tick ==
  /\ now + Quantum <= MaxTime
  /\ now' = now + Quantum
  /\ S' = IF expired(S, now') THEN NoS ELSE S
  /\ E' = IF expired(E, now') THEN NoE ELSE E
  /\ UNCHANGED <<buckets, callCounts, requests, replies, last, key, waiting, granted>>

Init ==
  /\ now = 0
  /\ buckets \in {NormalizeType(t) : t \in TypeDefs}
  /\ S = NoS
  /\ E = NoE
  /\ callCounts = NoCall
  /\ requests = <<>>
  /\ replies = <<>>
  /\ last = NoLast
  /\ key = DefaultKey
  /\ waiting = NoWait
  /\ granted = NoGrants

Next ==
  \/ \E params \in Params : Take(params)
  \/ \E params \in Params : Put(params)
  \/ \E params \in Params : Get(params)
  \/ StoreExec
  \/ Callback
  \/ Tick

Spec == Init /\ [][Next]_vars

\* ---- a burst of concurrent takes ----------------------------------------
\* Fixed buckets of every small size, without and with elevated limits.
ConcTypes ==
  { Raw(s, 0, FALSE, 0, el) :
      s \in 1 .. StdSize + 1,
      el \in {<<>>} \cup { <<Raw(e, 1, FALSE, 0, <<>>)>> : e \in 1 .. ErlSize } }

InitConc ==
  /\ now = 0
  /\ buckets \in {NormalizeType(t) : t \in ConcTypes}
  /\ key = DefaultKey
  /\ waiting = NoWait
  /\ granted = NoGrants
  /\ S = NoS
  /\ E = NoE
  /\ callCounts = NoCall
  /\ requests = <<>>
  /\ replies = <<>>
  /\ last = NoLast

\* One more take of one token, issued while the others are in flight
ConcTake ==
  TakeCall([count |-> [tag |-> "absent", v |-> 0], erlIsActiveKey |-> TRUE, key |-> key], NTakers)

NextConc ==
  \/ ConcTake
  \/ StoreExec

SpecConc == InitConc /\ [][NextConc]_vars

\* ---- the client with all its operations, on types with elevated limits --
\* The activation period configured in ErlPeriodType (seconds).
ConfiguredPeriod == 20
\* ErlType with erl_activation_period_seconds set in its elevated limits
ErlPeriodType ==
  [ErlType EXCEPT !.elevated_limits =
     <<[ErlType.elevated_limits[1] EXCEPT !.erl_activation_period_seconds = ConfiguredPeriod]>>]
\* size 1 / elevated size 2 as in the tests, fixed
ErlSmallType == Raw(1, 0, FALSE, 0, <<Raw(2, 0, FALSE, 0, <<>>)>>)
ErlTypeDefs == {ErlPeriodType, ErlSmallType}

\* what the callers of this scenario pass as count
ErlCounts == {[tag |-> "absent", v |-> 0]}
             \cup {[tag |-> "int", v |-> 2]}
ErlParams == [count : ErlCounts, erlIsActiveKey : BOOLEAN, key : {key}]

InitErl ==
  /\ now = 0
  /\ buckets \in {NormalizeType(t) : t \in ErlTypeDefs}
  /\ S = NoS
  /\ E = NoE
  /\ callCounts = NoCall
  /\ requests = <<>>
  /\ replies = <<>>
  /\ last = NoLast
  /\ key = DefaultKey
  /\ waiting = NoWait
  /\ granted = NoGrants

NextErl ==
  \/ \E params \in ErlParams : Take(params)
  \/ \E params \in ErlParams : Put(params)
  \/ \E params \in ErlParams : Get(params)
  \/ \E params \in ErlParams : Wait(params)
  \/ Retry
  \/ ResetAll
  \/ \E bucket \in ErlTypeDefs : Configure(bucket)
  \/ StoreExec
  \/ Callback
  \/ Tick

SpecErl == InitErl /\ [][NextErl]_vars

\* ---- the key resolver: types with overrides, calls with a configOverride -
\* The clock of the model counts from the epoch: the timestamp 0 is the
\* number 0 of the code.
UntilTimes == {0, Quantum, 2 * Quantum}
Untils == {NoUntil} \cup {[kind |-> k, t |-> t] : k \in {"date", "timestamp"}, t \in UntilTimes}

\* The bucket definitions the overrides carry: fixed buckets of other sizes.
LiteralDef == Raw(StdSize + 1, 0, FALSE, 0, <<>>)
FirstDef == Raw(StdSize + 2, 0, FALSE, 0, <<>>)
SecondDef == Raw(StdSize + 3, 0, FALSE, 0, <<>>)

\* A type with a literal override named "rx1" and two regex overrides, in
\* this order of definition; the literal or the first regex has an until.
OverridesType(literalUntil, firstUntil) ==
  FixedType @@
  [overrides |-> << OverrideDef("second", SecondDef, "1$", NoUntil) ,
                    OverrideDef("rx1", LiteralDef, "", literalUntil),
                    OverrideDef("first", FirstDef, "^rx", firstUntil) >>]

\* A type with elevated limits, with a literal override that has elevated
\* limits of its own and a regex override that has none.
ErlOverridesType ==
  ErlSmallType @@
  [overrides |-> << OverrideDef("rx1", Raw(StdSize + 1, 0, FALSE, 0, <<Raw(ErlSize, 1, FALSE, 0, <<>>)>>),
                                "", NoUntil),
                    OverrideDef("first", FirstDef, "^rx", NoUntil) >>]

ResolveTypeDefs ==
  {OverridesType(u, NoUntil) : u \in Untils}
  \cup {OverridesType(NoUntil, u) : u \in Untils}
  \cup {ErlOverridesType}

\* params.configOverride of the calls that have one: without and with
\* elevated limits
ConfigOverrides ==
  { Raw(StdSize + 1, 0, FALSE, 0, <<>>),
    Raw(StdSize, 0, FALSE, 0, <<Raw(ErlSize, 1, FALSE, 0, <<>>)>>) }

PlainParams == [count : {[tag |-> "absent", v |-> 0]}, erlIsActiveKey : BOOLEAN, key : {key}]
ResolveParams ==
  PlainParams \cup {p @@ [configOverride |-> c] : p \in PlainParams, c \in ConfigOverrides}

InitResolve ==
  /\ now = 0
  /\ buckets \in {NormalizeType(t) : t \in ResolveTypeDefs}
  /\ S = NoS
  /\ E = NoE
  /\ callCounts = NoCall
  /\ requests = <<>>
  /\ replies = <<>>
  /\ last = NoLast
  /\ key \in Keys
  /\ waiting = NoWait
  /\ granted = NoGrants

NextResolve ==
  \/ \E params \in ResolveParams : Take(params)
  \/ \E params \in ResolveParams : Get(params)
  \/ \E bucket \in ResolveTypeDefs : Configure(bucket)
  \/ StoreExec
  \/ Callback
  \/ Tick

SpecResolve == InitResolve /\ [][NextResolve]_vars

\* ---- the skip-call cache: one caller, one count, fixed buckets ------------
MaxSkip == 2            \* largest skip_n_calls of the modelled types
\* global: {size: 3, skip_n_calls: 1, per_hour: 0} of the tests
SkipTestType == Raw(3, 0, FALSE, 1, <<>>)
SkipTypeDefs ==
  {Raw(size, 0, FALSE, k, <<>>) : size \in StdSize + 1 .. StdSize + 2, k \in 0 .. MaxSkip}
  \cup {SkipTestType}
\* the count every take of a behaviour passes
SkipCounts == 1 .. StdSize + 1
SkipParams == [count : {[tag |-> "int", v |-> granted.count]}, erlIsActiveKey : {FALSE},
               key : {key}]

\* A take on another key of the type completes: its callback sets the entry
\* of that key in this.callCounts, which holds CALLCOUNTS_MAX keys and drops
\* the one used least recently.
OtherTake ==
  /\ Pending = 0
  /\ buckets.skip_n_calls > 0
  /\ callCounts.has
  /\ callCounts' = IF callCounts.behind + 1 >= CALLCOUNTS_MAX
                   THEN NoCall
                   ELSE [callCounts EXCEPT !.behind = @ + 1]
  /\ UNCHANGED <<buckets, now, S, E, requests, replies, last, key, waiting, granted>>

\* The oldest command fails (the connection is lost, the command times
\* out): its callback gets the error and the store is as it was.
StoreError ==
  /\ requests # <<>>
  /\ Schedule(Reply("error", TRUE, <<>>, Head(requests).config, NoRes))
  /\ requests' = Tail(requests)
  /\ UNCHANGED <<buckets, now, S, E, callCounts, last, key, waiting, granted>>

InitSkip ==
  /\ now = 0
  /\ buckets \in {NormalizeType(t) : t \in SkipTypeDefs}
  /\ S = NoS
  /\ E = NoE
  /\ callCounts = NoCall
  /\ requests = <<>>
  /\ replies = <<>>
  /\ last = NoLast
  /\ key = DefaultKey
  /\ waiting = NoWait
  /\ granted \in [count : SkipCounts, tokens : {0}]

NextSkip ==
  \/ \E params \in SkipParams : Take(params)
  \/ OtherTake
  \/ StoreExec
  \/ StoreError
  \/ Callback

SpecSkip == InitSkip /\ [][NextSkip]_vars

\* ---- validation: calls with a bad count or with bad params ----------------
\* A count that is neither absent, 'all' nor an integer: a fraction (1.5), a
\* string ('abc', or '' with v = 0), a boolean (true, or false with v = 0),
\* a big integer (1n, or 0n with v = 0), a record.
BadCounts ==
  {[tag |-> t, v |-> 1] : t \in {"fraction", "string", "boolean", "bigint", "record"}}
  \cup {[tag |-> t, v |-> 0] : t \in {"string", "boolean", "bigint"}}
GoodCounts == {[tag |-> "absent", v |-> 0], [tag |-> "all", v |-> 0], [tag |-> "int", v |-> 1]}
SoundParams == [count : GoodCounts \cup BadCounts, erlIsActiveKey : BOOLEAN, key : {key}]
DefectParams == {NoParams @@ [defect |-> d] : d \in Defects}
ValidateParams == SoundParams \cup DefectParams

ValidateTypeDefs == {FixedType, UnlimitedType, ErlSmallType}

InitValidate ==
  /\ now = 0
  /\ buckets \in {NormalizeType(t) : t \in ValidateTypeDefs}
  /\ S = NoS
  /\ E = NoE
  /\ callCounts = NoCall
  /\ requests = <<>>
  /\ replies = <<>>
  /\ last = NoLast
  /\ key = DefaultKey
  /\ waiting = NoWait
  /\ granted = NoGrants

NextValidate ==
  \/ \E params \in ValidateParams : Take(params)
  \/ \E params \in ValidateParams : Put(params)
  \/ \E params \in ValidateParams : Get(params)
  \/ StoreExec
  \/ Callback

SpecValidate == InitValidate /\ [][NextValidate]_vars

\* ---- the TTL of the state entry: descriptors with different ttl ----------
\* A dripping bucket, a fixed one and one with elevated limits, of size
\* StdSize + 1, and a configOverride whose ttl is not a whole number of
\* seconds.
TtlTypeDefs ==
  { Raw(StdSize + 1, 1, FALSE, 0, <<>>),
    Raw(StdSize + 1, 0, FALSE, 0, <<>>),
    Raw(StdSize + 1, 1, FALSE, 0, <<Raw(ErlSize, 2, FALSE, 0, <<>>)>>) }
TtlOverrides ==
  { Raw(StdSize + 2, 2, FALSE, 0, <<>>),
    Raw(StdSize + 2, 2, FALSE, 0, <<Raw(ErlSize, 2, FALSE, 0, <<>>)>>) }
TtlPlainParams == [count : {[tag |-> "absent", v |-> 0]}, erlIsActiveKey : {TRUE}, key : {key}]
TtlParams ==
  TtlPlainParams \cup {p @@ [configOverride |-> c] : p \in TtlPlainParams, c \in TtlOverrides}

InitTtl ==
  /\ now = 0
  /\ buckets \in {NormalizeType(t) : t \in TtlTypeDefs}
  /\ S = NoS
  /\ E = NoE
  /\ callCounts = NoCall
  /\ requests = <<>>
  /\ replies = <<>>
  /\ last = NoLast
  /\ key = DefaultKey
  /\ waiting = NoWait
  /\ granted = NoGrants

NextTtl ==
  \/ \E params \in TtlParams : Take(params)
  \/ StoreExec
  \/ Callback
  \/ Tick

SpecTtl == InitTtl /\ [][NextTtl]_vars

\* ---- put and the take that follows it -----------------------------------
\* Buckets of one size, fixed, dripping, with skip_n_calls and with elevated
\* limits; puts of a negative count, of 0, of less and of more than the size.
PutTypeDefs ==
  { Raw(StdSize + 1, 0, FALSE, 0, <<>>),
    Raw(StdSize + 1, 1, FALSE, 0, <<>>),
    Raw(StdSize + 1, 0, FALSE, 1, <<>>),
    Raw(StdSize + 1, 1, FALSE, 0, <<Raw(ErlSize + 1, 2, FALSE, 0, <<>>)>>) }
PutCounts ==
  {[tag |-> "absent", v |-> 0], [tag |-> "all", v |-> 0]}
  \cup {[tag |-> "int", v |-> n] : n \in {-1, 0, 1, StdSize + 2}}
PutParams == [count : PutCounts, erlIsActiveKey : {TRUE}, key : {key}]
\* the takes of this scenario ask for nothing, one token or the whole size
PutTakeParams == {p \in PutParams : p.count.tag # "absent" /\ p.count.v \in {0, 1}}

InitPut ==
  /\ now = 0
  /\ buckets \in {NormalizeType(t) : t \in PutTypeDefs}
  /\ S = NoS
  /\ E = NoE
  /\ callCounts = NoCall
  /\ requests = <<>>
  /\ replies = <<>>
  /\ last = NoLast
  /\ key = DefaultKey
  /\ waiting = NoWait
  /\ granted = NoGrants

NextPut ==
  \/ \E params \in PutParams : Put(params)
  \/ \E params \in PutTakeParams : Take(params)
  \/ StoreExec
  \/ Callback
  \/ Tick

SpecPut == InitPut /\ [][NextPut]_vars

\* ---- get between takes, puts and the expiry of the entry -----------------
\* A dripping type whose regex override "^rx" carries a fixed bucket
GetRegexType ==
  Raw(StdSize + 1, 1, FALSE, 0, <<>>)
  @@ [overrides |-> << OverrideDef("first", FirstDef, "^rx", NoUntil) >>]
GetTypeDefs ==
  { Raw(StdSize + 1, 0, FALSE, 0, <<>>),
    Raw(StdSize + 1, 0, FALSE, 1, <<>>),
    UnlimitedType,
    GetRegexType }
GetParams ==
  [count : {[tag |-> "absent", v |-> 0], [tag |-> "all", v |-> 0], [tag |-> "int", v |-> -1]},
   erlIsActiveKey : {TRUE}, key : {key}]

InitGet ==
  /\ now = 0
  /\ buckets \in {NormalizeType(t) : t \in GetTypeDefs}
  /\ S = NoS
  /\ E = NoE
  /\ callCounts = NoCall
  /\ requests = <<>>
  /\ replies = <<>>
  /\ last = NoLast
  /\ key \in {DefaultKey, "rx1"}
  /\ waiting = NoWait
  /\ granted = NoGrants

NextGet ==
  \/ \E params \in GetParams : Get(params)
  \/ \E params \in GetParams : Take(params)
  \/ \E params \in GetParams : Put(params)
  \/ StoreExec
  \/ Callback
  \/ Tick

SpecGet == InitGet /\ [][NextGet]_vars

\* ---- wait: a take that is tried again until it is conformant ------------
\* Dripping buckets without and with skip_n_calls, and a fixed bucket.
WaitTypeDefs ==
  { Raw(StdSize + 1, 1, FALSE, 0, <<>>),
    Raw(StdSize + 1, 1, FALSE, 1, <<>>),
    Raw(StdSize + 1, 0, FALSE, 0, <<>>) }
\* counts of one token, of the size, of more than the size, and 'all'
WaitParams ==
  [count : {[tag |-> "all", v |-> 0]}
           \cup {[tag |-> "int", v |-> n] : n \in {1, StdSize + 1, StdSize + 2}},
   erlIsActiveKey : {TRUE}, key : {key}]
\* the other consumer of the key takes the whole bucket
WaitTakeParams == {p \in WaitParams : p.count.tag = "all"}

InitWait ==
  /\ now = 0
  /\ buckets \in {NormalizeType(t) : t \in WaitTypeDefs}
  /\ S = NoS
  /\ E = NoE
  /\ callCounts = NoCall
  /\ requests = <<>>
  /\ replies = <<>>
  /\ last = NoLast
  /\ key = DefaultKey
  /\ waiting = NoWait
  /\ granted = NoGrants

NextWait ==
  \/ \E params \in WaitParams : Wait(params)
  \/ Retry
  \/ \E params \in WaitTakeParams : waiting.phase = "idle" /\ Take(params)
  \/ StoreExec
  \/ Callback
  \/ Tick

SpecWait == InitWait /\ [][NextWait]_vars


\* ---- resetAll between takes ---------------------------------------------
ResetTypeDefs ==
  { Raw(StdSize + 1, 0, FALSE, 0, <<>>),
    Raw(StdSize + 1, 1, FALSE, 0, <<>>),
    Raw(StdSize + 1, 0, FALSE, 1, <<>>),
    ErlSmallType }
ResetParams ==
  [count : {[tag |-> "absent", v |-> 0], [tag |-> "all", v |-> 0]},
   erlIsActiveKey : {TRUE}, key : {key}]

InitReset ==
  /\ now = 0
  /\ buckets \in {NormalizeType(t) : t \in ResetTypeDefs}
  /\ S = NoS
  /\ E = NoE
  /\ callCounts = NoCall
  /\ requests = <<>>
  /\ replies = <<>>
  /\ last = NoLast
  /\ key = DefaultKey
  /\ waiting = NoWait
  /\ granted = NoGrants

NextReset ==
  \/ \E params \in ResetParams : Take(params)
  \/ ResetAll
  \/ StoreExec
  \/ Callback
  \/ Tick

SpecReset == InitReset /\ [][NextReset]_vars

\* ---- the expiry of the state entry between takes and puts ----------------
\* A dripping and a fixed bucket, and buckets with elevated limits: one
\* that refills in a quarter of an interval, so that its ttl is shorter than
\* the activation period, with a slower elevated rate, and one that is
\* fixed.  The puts are of a negative count, which leaves r below 0.
ExpiryTypeDefs ==
  { Raw(StdSize + 1, 1, FALSE, 0, <<>>),
    Raw(StdSize + 1, 0, FALSE, 0, <<>>),
    Raw(StdSize, 4 * StdSize, FALSE, 0, <<Raw(ErlSize, 1, FALSE, 0, <<>>)>>),
    ErlSmallType }
ExpiryParams(count) == [count : {count}, erlIsActiveKey : {TRUE}, key : {key}]

InitExpiry ==
  /\ now = 0
  /\ buckets \in {NormalizeType(t) : t \in ExpiryTypeDefs}
  /\ S = NoS
  /\ E = NoE
  /\ callCounts = NoCall
  /\ requests = <<>>
  /\ replies = <<>>
  /\ last = NoLast
  /\ key = DefaultKey
  /\ waiting = NoWait
  /\ granted = NoGrants

NextExpiry ==
  \/ \E params \in ExpiryParams([tag |-> "absent", v |-> 0]) : Take(params)
  \/ \E params \in ExpiryParams([tag |-> "int", v |-> -1]) : Put(params)
  \/ StoreExec
  \/ Callback
  \/ Tick

SpecExpiry == InitExpiry /\ [][NextExpiry]_vars

\* ---- a burst of concurrent takes on a bucket with skip_n_calls -----------
MaxTakes == 5           \* the takes issued in a behaviour of this scenario
\* Fixed buckets large enough for every take of a burst to be granted.
BurstTypeDefs == {Raw(StdSize + MaxTakes, 0, FALSE, k, <<>>) : k \in 0 .. MaxSkip}
\* every take of a behaviour passes the same count, 1 or 2
BurstParams == [count : {[tag |-> "int", v |-> granted.count]}, erlIsActiveKey : {FALSE},
                key : {key}]

\* granted.issued counts the invocations of take
InitBurst ==
  /\ now = 0
  /\ buckets \in {NormalizeType(t) : t \in BurstTypeDefs}
  /\ S = NoS
  /\ E = NoE
  /\ callCounts = NoCall
  /\ requests = <<>>
  /\ replies = <<>>
  /\ last = NoLast
  /\ key = DefaultKey
  /\ waiting = NoWait
  /\ granted \in [count : 1 .. 2, tokens : {0}, issued : {0}]

\* One more take, issued while others may be in flight
BurstTake(params) ==
  /\ granted.issued < MaxTakes
  /\ TakeBody(params, NTakers)
  /\ granted' = [granted EXCEPT !.issued = @ + 1]
  /\ UNCHANGED <<key, waiting>>

NextBurst ==
  \/ \E params \in BurstParams : BurstTake(params)
  \/ StoreExec
  \/ Callback

SpecBurst == InitBurst /\ [][NextBurst]_vars

\* ---- wait under fair scheduling -----------------------------------------
\* Buckets that refill completely in one interval, without and with
\* skip_n_calls, and a fixed bucket.
LiveTypeDefs ==
  { Raw(StdSize + 1, StdSize + 1, FALSE, 0, <<>>),
    Raw(StdSize + 1, StdSize + 1, FALSE, 1, <<>>),
    Raw(StdSize + 1, 0, FALSE, 0, <<>>) }

InitLive ==
  /\ now = 0
  /\ buckets \in {NormalizeType(t) : t \in LiveTypeDefs}
  /\ S = NoS
  /\ E = NoE
  /\ callCounts = NoCall
  /\ requests = <<>>
  /\ replies = <<>>
  /\ last = NoLast
  /\ key = DefaultKey
  /\ waiting = NoWait
  /\ granted = NoGrants

\* a wait that starts while the clock of the model leaves it the time of a
\* complete refill
WaitInTime(params) == now + Interval <= MaxTime /\ Wait(params)

\* Commands, callbacks and timers are prompt: no time passes while one of
\* them is due.
TickIdle ==
  /\ Pending = 0
  /\ ~(waiting.phase = "sleep" /\ now >= waiting.due)
  /\ Tick

NextLive ==
  \/ \E params \in WaitParams : WaitInTime(params)
  \/ Retry
  \/ \E params \in WaitTakeParams : waiting.phase = "idle" /\ Take(params)
  \/ StoreExec
  \/ Callback
  \/ TickIdle

\* the store serves every command, the event loop runs every callback and
\* every timer that is due, and time goes on
SpecLive ==
  /\ InitLive /\ [][NextLive]_vars
  /\ WF_vars(StoreExec) /\ WF_vars(Callback) /\ WF_vars(Retry) /\ WF_vars(TickIdle)

\* ---- what the claims speak of -------------------------------------------
TakeKinds == {"take", "takeElevated"}
SizeU == buckets.size * Scale
HasElevated == buckets.elevated_limits # <<>>
ErlSizeT == IF HasElevated THEN buckets.elevated_limits[1].size ELSE 0
ErlSizeU == ErlSizeT * Scale
Fixed == buckets.per_interval = 0

\* a step in which the store runs a take or a takeElevated
TakeStep == requests # <<>> /\ requests' = Tail(requests) /\ Head(requests).cmd \in TakeKinds
ElevatedStep == requests # <<>> /\ requests' = Tail(requests) /\ Head(requests).cmd = "takeElevated"
\* in such a step: the count asked, the result the caller will get
StepCount == Head(requests).a.tokens_to_take * Scale
StepResult == Decode(replies'[Len(replies')])

\* the conformant results among the callbacks scheduled
Conformants == Cardinality({i \in 1 .. Len(replies) : Decode(replies[i]).conformant})
\* the tokens a burst can get from a full fixed bucket
Capacity == IF HasElevated THEN Max(buckets.size, ErlSizeT) ELSE buckets.size

\* C1 (as stated): n concurrent takes of one token on a full fixed bucket of
\* size S give exactly min(n, S) conformant results, S being the size.
C1_Original == Conformants = Min(Len(replies), buckets.size)

\* C1 (amended): the takes are served in one serial order, the i-th served
\* being conformant exactly when i is at most the capacity: the size for
\* take, the larger of size and elevated size for takeElevated; so n takes
\* give exactly min(n, capacity) conformant results.
C1_SerialBurst ==
  /\ \A i \in 1 .. Len(replies) : Decode(replies[i]).conformant <=> i <= Capacity
  /\ Conformants = Min(Len(replies), Capacity)

C1_Witness ==
  /\ requests = <<>> /\ Len(replies) = NTakers
  /\ HasElevated /\ ErlSizeT > buckets.size
  /\ NTakers > Capacity /\ Conformants = Capacity

\* C2 (as stated): a conformant take leaves r = content after refill minus
\* count, a non-conformant take leaves r = content after refill.
C2_Original ==
  [][TakeStep => S'.r = last'.refill - (IF StepResult.conformant THEN StepCount ELSE 0)]_vars

\* C2 (amended): a non-conformant take leaves r = content after refill; the
\* take that activates ERL leaves r = erl_size - (size - content) - count; any
\* other conformant take leaves r = min(content - count, size in effect),
\* which is content - count whenever count >= 0.
C2_Deduction ==
  [][TakeStep =>
       LET a == Head(requests).a
           content == last'.refill
           inEffect == IF E.live /\ Head(requests).cmd = "takeElevated"
                       THEN a.erl_bucket_size * Scale ELSE a.bucket_size * Scale
       IN  IF ~StepResult.conformant THEN S'.r = content
           ELSE IF ~E.live /\ E'.live
           THEN S'.r = a.erl_bucket_size * Scale - (a.bucket_size * Scale - content) - StepCount
           ELSE /\ S'.r = Min(content - StepCount, inEffect)
                /\ StepCount >= 0 => S'.r = content - StepCount]_vars

C2_Witness ==
  /\ last.cmd \in TakeKinds /\ last.enough /\ ~last.set_erl /\ last.count > 0
  /\ last.had /\ last.refill > last.r0
  /\ S.live /\ S.r = last.refill - last.count

\* C3: after every take or takeElevated the remaining written and returned
\* is at most the size in effect: erl_size when erl_activated is returned
\* true, the size otherwise.
C3_RemainingWithinSize ==
  /\ last.cmd \in TakeKinds => last.take <= (IF last.erl1 THEN ErlSizeU ELSE SizeU)
  /\ \A i \in 1 .. Len(replies) :
       replies[i].kind \in TakeKinds \cup {"localTake"} =>
         LET res == Decode(replies[i])
         IN  res.remaining <= (IF res.erl_activated = "true" THEN ErlSizeT ELSE buckets.size)

C3_Witness ==
  \E i \in 1 .. Len(replies) :
    /\ replies[i].kind = "takeElevated"
    /\ Decode(replies[i]).erl_activated = "true"
    /\ Decode(replies[i]).remaining > buckets.size

\* C4 (as stated): after any mutation the stored r is never negative.
C4_Original == S.live => S.r >= 0

\* C4 (amended): a mutation leaves r negative only when it is a put of a
\* negative count or when r was negative before it; take and takeElevated
\* never take r below 0.
C4_NegativeOnlyByPut ==
  /\ S.live => S.r = last.take
  /\ (last.cmd # "none" /\ last.take < 0) =>
       \/ last.cmd = "put" /\ last.count < 0
       \/ last.had /\ last.r0 < 0

C4_Witness ==
  /\ S.live /\ S.r < 0
  /\ last.cmd = "put" /\ last.count < 0 /\ last.had /\ last.r0 >= 0

\* C5 (as stated): for a fixed bucket the content seen by a take is never
\* higher than the r left by the previous mutation, whatever happened in
\* between (time, TTL expiry of the state entry included).
C5_Original ==
  [][(TakeStep /\ Fixed /\ last.cmd # "none") => last'.refill <= last.take]_vars

\* C5 (amended): for a fixed bucket, a take that finds the state entry
\* (its TTL has not elapsed) while ERL is not active sees a content that is
\* never higher than the r left by the previous mutation.
C5_FixedNeverRefills ==
  [][(TakeStep /\ Fixed /\ S.live /\ ~E.live) =>
        /\ S.r = last.take
        /\ last'.refill <= last.take]_vars

C5_Witness ==
  /\ Fixed /\ last.cmd \in TakeKinds /\ last.had /\ ~last.erl0
  /\ last.r0 < SizeU /\ last.refill = last.r0 /\ last.at > 0

\* C6 (as stated): a take or takeElevated whose count is greater than the
\* size is never conformant.
C6_Original == (last.cmd \in TakeKinds /\ last.count > SizeU) => ~last.enough

\* C6 (amended): a take whose count is greater than the size, and a
\* takeElevated whose count is greater than both the size and the elevated
\* size, is never conformant.
C6_OverCapacity ==
  /\ (last.cmd = "take" /\ last.count > SizeU) => ~last.enough
  /\ (last.cmd = "takeElevated" /\ last.count > SizeU /\ last.count > ErlSizeU) => ~last.enough

C6_Witness ==
  /\ last.cmd = "takeElevated" /\ last.count > ErlSizeU /\ last.count > SizeU
  /\ ~last.had /\ ~last.enough /\ last.refill = SizeU

\* C7: a take of count 0 is conformant in every reachable state and leaves
\* r equal to the content after refill.
C7_ZeroCount ==
  (last.cmd \in TakeKinds /\ last.count = 0) => (last.enough /\ last.take = last.refill)

\* C8: for an unlimited bucket every take returns conformant = true and
\* remaining = size, and take, put and get send nothing to the store: the
\* state entry, the ERL entry and the skip-call cache stay as they were.
C8_Unlimited ==
  buckets.unlimited =>
    /\ requests = <<>> /\ S = NoS /\ E = NoE /\ last = NoLast
    /\ ~callCounts.has
    /\ \A i \in 1 .. Len(replies) :
         /\ replies[i].kind \in {"localTake", "localPut", "localGet"}
         /\ Decode(replies[i]).remaining = buckets.size
         /\ Decode(replies[i]).limit = buckets.size
         /\ replies[i].kind = "localTake" => Decode(replies[i]).conformant

C8_Witness ==
  /\ buckets.unlimited /\ now > 0
  /\ \E i \in 1 .. Len(replies) :
       replies[i].kind = "localTake" /\ Decode(replies[i]).conformant

\* C9: E is created only by a takeElevated that finds E absent, a standard
\* content after refill below count and erl_size - (size - content) >= count;
\* the invocation that creates E returns conformant = true, and one that is
\* denied while E is absent leaves E absent.
C9_Activation ==
  [][/\ (E' # E /\ E'.live) =>
          /\ ElevatedStep /\ ~E.live
          /\ last'.refill < StepCount
          /\ ErlSizeU - (SizeU - last'.refill) >= StepCount
          /\ StepResult.conformant
     /\ (ElevatedStep /\ ~E.live /\ ~StepResult.conformant) => ~E'.live]_vars

C9_Witness ==
  /\ last.cmd = "takeElevated" /\ last.set_erl /\ last.had /\ E.live
  /\ last.refill > 0

\* C10 (as stated): in the invocation that activates ERL the remaining
\* written and the remaining returned both equal erl_size - used - count,
\* with used = size - standard content after refill.
C10_Original ==
  [][(ElevatedStep /\ ~E.live /\ E'.live) =>
        /\ S'.r = ErlSizeU - (SizeU - last'.refill) - StepCount
        /\ StepResult.remaining * Scale = ErlSizeU - (SizeU - last'.refill) - StepCount]_vars

\* C10 (amended): in the invocation that activates ERL the remaining written
\* equals erl_size - used - count, and the remaining returned is that value
\* without its fraction (the same value when it is whole).
C10_CarryForward ==
  [][(ElevatedStep /\ ~E.live /\ E'.live) =>
        /\ S'.r = ErlSizeU - (SizeU - last'.refill) - StepCount
        /\ StepResult.remaining = Trunc(ErlSizeU - (SizeU - last'.refill) - StepCount)]_vars

C10_Witness ==
  /\ last.cmd = "takeElevated" /\ last.set_erl /\ E.live /\ S.live
  /\ last.refill > 0 /\ last.refill < SizeU
  /\ S.r = ErlSizeU - (SizeU - last.refill) - last.count

\* a step in which the store runs FLUSHDB
FlushStep == requests # <<>> /\ requests' = Tail(requests) /\ Head(requests).cmd = "flushdb"
\* the callback a step of take schedules, if it schedules one
Scheduled == Len(replies') = Len(replies) + 1
NewReply == replies'[Len(replies')]
\* a complete elevated configuration: size, per_interval and activation
\* period all set
CompleteElevated(config) ==
  /\ config.elevated_limits # <<>>
  /\ config.elevated_limits[1].size > 0
  /\ config.elevated_limits[1].per_interval > 0
  /\ config.elevated_limits[1].erl_activation_period_seconds > 0

\* C11 (as stated): once E exists no operation of the client removes it; E
\* goes only when its TTL has elapsed.
C11_Original == [][(E.live /\ ~E'.live) => (now' > now /\ E.exp <= now')]_vars

\* C11 (amended): once E exists, take, put, get, wait and configure never
\* remove it; E goes only when its TTL has elapsed or when resetAll flushes
\* the store, which removes E together with the state entries.
C11_OnlyExpiryOrFlush ==
  [][(E.live /\ ~E'.live) =>
        \/ now' > now /\ E.exp <= now'
        \/ FlushStep /\ ~S'.live]_vars

C11_Witness ==
  /\ ~E.live /\ ~S.live
  /\ last.cmd = "takeElevated" /\ last.set_erl /\ now = last.at

\* C12: a takeElevated that finds E leaves E as it is, value and TTL; E is
\* written only when it is absent, with the activation period passed to the
\* script as its TTL, and E is gone when that TTL has elapsed: ERL ends at
\* most one activation period after the take that activated it.
C12_NoExtension ==
  [][/\ (E.live /\ E'.live) => E' = E
     /\ E'.live => now' < E'.exp
     /\ (~E.live /\ E'.live) =>
          /\ ElevatedStep
          /\ E'.exp = now + Head(requests).a.erl_activation_period_seconds * MsPerSecond]_vars

C12_Witness ==
  /\ E.live /\ last.cmd = "takeElevated" /\ last.erl0 /\ ~last.set_erl
  /\ E.exp < last.at + DEFAULT_ACTIVATION_PERIOD * MsPerSecond

\* C13: when ERL is activated, E is written with a TTL in seconds equal to
\* the erl_activation_period_seconds of the descriptor's elevated limits
\* (900 when none is configured).
C13_ActivationPeriod ==
  [][(~E.live /\ E'.live) =>
        E'.exp = now + Head(requests).config.elevated_limits[1].erl_activation_period_seconds
                       * MsPerSecond]_vars

\* C14: while E exists, takeElevated refills from the stored r with the
\* elevated rate up to erl_size (erl_size when there is no state entry),
\* is conformant exactly when that content is at least count, returns
\* erl_activated = true and leaves E as it is; when denied it writes the
\* refilled content back, nothing deducted.
C14_ElevatedRegime ==
  [][(ElevatedStep /\ E.live) =>
        LET a == Head(requests).a
            erl_size == a.erl_bucket_size * Scale
            content == IF S.live
                       THEN Min(S.r + ((now - S.d) * a.erl_tokens_per_ms[1] * Scale)
                                        \div a.erl_tokens_per_ms[2], erl_size)
                       ELSE erl_size
        IN  /\ last'.refill = content
            /\ StepResult.conformant <=> content >= StepCount
            /\ StepResult.erl_activated = "true"
            /\ E' = E
            /\ StepResult.conformant => S'.r = Min(content - StepCount, erl_size)
            /\ ~StepResult.conformant => S'.r = content /\ StepResult.remaining = Trunc(content)]_vars

C14_Witness ==
  /\ E.live /\ last.cmd = "takeElevated" /\ last.erl0
  /\ last.had /\ last.refill > last.r0 /\ ~last.enough /\ last.take = last.refill
  /\ \E i \in 1 .. Len(replies) :
       /\ replies[i].kind = "takeElevated"
       /\ ~Decode(replies[i]).conformant
       /\ Decode(replies[i]).erl_activated = "true"

\* C15: a take on a type with elevated limits whose erlIsActiveKey is
\* missing calls back with the error 'erlIsActiveKey is required for
\* elevated limits' and writes neither the store nor the skip-call cache.
C15_MissingErlKey ==
  [][\A params \in Params :
       (HasElevated /\ ~params.erlIsActiveKey /\ Take(params)) =>
          /\ Scheduled /\ NewReply.kind = "error"
          /\ UNCHANGED <<S, E, callCounts, requests>>]_vars

\* C16: a take with an erlIsActiveKey on a bucket whose resolved descriptor
\* has no complete elevated configuration calls back with an error and
\* sends nothing to the store; it never proceeds as a standard take.
C16_NoElevatedConfig ==
  [][\A params \in Params :
       (/\ params.erlIsActiveKey
        /\ ~CompleteElevated(bucketKeyConfig(buckets, params))
        /\ Take(params)) =>
          /\ Scheduled /\ NewReply.kind = "error"
          /\ UNCHANGED <<S, E, callCounts, requests>>]_vars

\* C18: take never runs the elevated routine and requires no erlIsActiveKey,
\* also on a type that has elevated limits: every command a take sends is
\* the standard take, no take fails for a missing erlIsActiveKey, and no
\* result of a take has an erl_activated field.
C18_PlainTake ==
  /\ \A i \in 1 .. Len(requests) : requests[i].cmd # "takeElevated"
  /\ \A i \in 1 .. Len(replies) :
       /\ replies[i].kind \notin {"takeElevated", "error"}
       /\ Decode(replies[i]).erl_activated = "absent"

\* the descriptor a step of take or get hands to the command it sends or to
\* the callback it schedules
UsedDescriptor ==
  IF Len(requests') > Len(requests) THEN requests'[Len(requests')].config ELSE NewReply.config

\* C17: an elevated take (a take with an erlIsActiveKey whose resolved
\* descriptor has elevated limits, be it the type, an override or a
\* configOverride) runs the elevated routine with the standard and the
\* elevated parameters of that descriptor.
C17_ResolvedDescriptor ==
  [][\A params \in ResolveParams :
       LET config == bucketKeyConfig(buckets, params)
           count == determineCount(params.count, 1, config.size)
       IN  (params.erlIsActiveKey /\ config.elevated_limits # <<>> /\ Take(params)) =>
             requests' = Append(requests,
                                Request("takeElevated", TakeElevatedArgs(config, count), config))]_vars

\* the literal override the type defines under the name k, <<>> if none
definedOverride(type, k) ==
  LET Named(o) == o.name = k
  IN  SelectSeq(type.overrides, Named)

\* C19: every take and get works with the descriptor chosen in this order:
\* the configOverride of the call, the literal override named key, the
\* cached regex match of key, the first regex override in definition order
\* that matches key, the type.
C19_Precedence ==
  [][\A params \in ResolveParams :
       (Take(params) \/ Get(params)) =>
          UsedDescriptor =
            IF "configOverride" \in DOMAIN params THEN NormalizeTemporals(params.configOverride)
            ELSE IF definedOverride(buckets, params.key) # <<>>
                 THEN definedOverride(buckets, params.key)[1]
            ELSE IF fromCache(buckets, params.key) # <<>> THEN fromCache(buckets, params.key)[1]
            ELSE IF fromMatch(buckets, params.key) # <<>> THEN fromMatch(buckets, params.key)[1]
            ELSE buckets]_vars

\* an until that lies before the time t
inThePast(until, t) == until.kind # "absent" /\ until.t < t
\* the definition of a type without the overrides whose until lies before t
withoutPast(bucket, t) ==
  LET Current(o) == ~inThePast(o.until, t)
  IN  [bucket EXCEPT !.overrides = SelectSeq(@, Current)]

\* C20: an override whose until, a date or a timestamp, is in the past when
\* the type is compiled is dropped: the compiled type is the one of the
\* definition without that override.
C20_PastUntilDropped ==
  [][\A bucket \in ResolveTypeDefs :
       Configure(bucket) => buckets' = NormalizeType(withoutPast(bucket, now))]_vars

\* a step in which the client sends a command to the store
Sent == Len(requests') = Len(requests) + 1
NewRequest == requests'[Len(requests')]
\* the callback of a take that the store served runs in this step
TakeServed ==
  /\ replies # <<>> /\ replies' = Tail(replies)
  /\ Head(replies).kind \in {"take", "takeElevated"} /\ ~Head(replies).err

\* C21: with skip_n_calls = k > 0, a take that finds no cache entry goes to
\* the store; a take that finds an entry with fewer than k skipped calls
\* calls back with the cached result, sends nothing and increments the
\* counter; a take that finds k skipped calls goes to the store, and the
\* callback of its result sets the counter to 0; with k = 0 the cache is
\* never written.
C21_SkipCalls ==
  [][LET k == buckets.skip_n_calls
     IN  /\ \A params \in SkipParams :
               Take(params) =>
                 IF k > 0 /\ callCounts.has /\ callCounts.count < k
                 THEN /\ Scheduled /\ NewReply.res = callCounts.res /\ ~NewReply.err
                      /\ callCounts'.count = callCounts.count + 1
                      /\ callCounts'.res = callCounts.res
                      /\ UNCHANGED <<requests, S, E>>
                 ELSE /\ Sent /\ NewRequest.cmd = "take"
                      /\ UNCHANGED <<replies, S, E>>
                      /\ callCounts'.count = callCounts.count
         /\ (TakeServed /\ k > 0) =>
               callCounts' = [has |-> TRUE, res |-> Decode(Head(replies)), count |-> 0, behind |-> 0]
         /\ k = 0 => (~callCounts.has /\ ~callCounts'.has)
         /\ callCounts'.count <= k]_vars

\* k takes in a row were answered from the cache, the last of them waits in
\* the queue of callbacks
C21_Witness ==
  /\ buckets.skip_n_calls = MaxSkip
  /\ callCounts.has /\ callCounts.count = MaxSkip
  /\ replies # <<>> /\ Head(replies).kind = "localTake"
  /\ Head(replies).res = callCounts.res

\* C22: a take that goes to the store without a cache entry sends the
\* count of the caller, a take that goes to the store after k skipped calls
\* sends count * (k + 1); the entry is replaced by {res, 0} only by the
\* callback of a take that the store served, never after an error.
C22_ScaledCount ==
  [][/\ \A params \in SkipParams :
          (Take(params) /\ Sent) =>
             NewRequest.a.tokens_to_take =
               IF buckets.skip_n_calls > 0 /\ callCounts.has
               THEN params.count.v * (buckets.skip_n_calls + 1)
               ELSE params.count.v
     /\ (callCounts'.has /\ (~callCounts.has \/ callCounts'.res # callCounts.res
                              \/ callCounts'.count < callCounts.count)) =>
          /\ TakeServed
          /\ callCounts'.res = Decode(Head(replies))
          /\ callCounts'.count = 0]_vars

\* after k skipped calls and a command that failed, the next take is on its
\* way with count * (k + 1), the entry still as it was
C22_Witness ==
  /\ buckets.skip_n_calls > 0 /\ granted.count > 1
  /\ callCounts.has /\ callCounts.count = buckets.skip_n_calls
  /\ requests # <<>>
  /\ Head(requests).a.tokens_to_take = granted.count * (buckets.skip_n_calls + 1)
  /\ last.cmd = "take" /\ last.count = granted.count * Scale

\* The first three takes on a fresh bucket of SkipTestType: the result of the
\* first take that the store served, the result the cache gave to the
\* second, the result of the third, which the store served after the skip.
FirstResult(reply) ==
  reply.kind = "take" /\ ~reply.err /\ ~callCounts.has /\ ~last.had /\ granted.tokens = 0
SecondResult(reply) ==
  /\ reply.kind = "localTake" /\ callCounts.count = 1 /\ granted.tokens = granted.count
  /\ ~last.had
ThirdResult(reply) ==
  /\ reply.kind = "take" /\ ~reply.err /\ callCounts.has /\ callCounts.count = 1
  /\ granted.tokens = 2 * granted.count

\* C23 (as stated): size 3, skip_n_calls 1, count 2: the remaining of the
\* three takes are 2, 2, 0 and the third take deducts 4 tokens.
C23_Original ==
  (buckets = NormalizeType(SkipTestType) /\ granted.count = 2) =>
    \A i \in 1 .. Len(replies) :
      /\ FirstResult(replies[i]) => Decode(replies[i]).remaining = 2
      /\ SecondResult(replies[i]) => Decode(replies[i]).remaining = 2
      /\ ThirdResult(replies[i]) =>
           /\ Decode(replies[i]).remaining = 0
           /\ last.refill - last.take = 4 * Scale

\* C23 (amended): size 3, skip_n_calls 1.  With count 1 the remaining are
\* 2, 2, 0, all conformant, and the third take deducts 2 tokens.  With
\* count 2 they are 1, 1, 1: the third take asks the store for 4 tokens,
\* is denied and deducts nothing.
C23_SkipSequence ==
  buckets = NormalizeType(SkipTestType) =>
    \A i \in 1 .. Len(replies) :
      LET res == Decode(replies[i])
      IN  /\ (granted.count = 1 /\ FirstResult(replies[i])) =>
               res.remaining = 2 /\ res.conformant
          /\ (granted.count = 1 /\ SecondResult(replies[i])) =>
               res.remaining = 2 /\ res.conformant
          /\ (granted.count = 1 /\ ThirdResult(replies[i])) =>
               /\ res.remaining = 0 /\ res.conformant
               /\ last.count = 2 * Scale /\ last.refill - last.take = 2 * Scale
          /\ (granted.count = 2 /\ FirstResult(replies[i])) =>
               res.remaining = 1 /\ res.conformant
          /\ (granted.count = 2 /\ SecondResult(replies[i])) =>
               res.remaining = 1 /\ res.conformant
          /\ (granted.count = 2 /\ ThirdResult(replies[i])) =>
               /\ res.remaining = 1 /\ ~res.conformant
               /\ last.count = 4 * Scale /\ last.take = last.refill

C23_Witness ==
  /\ buckets = NormalizeType(SkipTestType) /\ granted.count = 2
  /\ replies # <<>> /\ ThirdResult(Head(replies))
  /\ ~Decode(Head(replies)).conformant

\* C24: on a fixed bucket of size S with skip_n_calls = k, the tokens
\* granted by the conformant results of takes of count c never exceed
\* S + k * c, whatever the takes on other keys do to the cache.
C24_OverAdmission ==
  granted.tokens <= buckets.size + buckets.skip_n_calls * granted.count

\* the call throws: nothing is sent and the callback is never invoked
Throws == Scheduled /\ NewReply.kind = "throw" /\ UNCHANGED <<requests, S, E, callCounts>>

\* C25: a take or put whose count is present and is neither 'all' nor an
\* integer throws and never calls back; with no count the default is used
\* (1 for take, the size for put) and 'all' stands for the size of the
\* descriptor.
C25_BadCount ==
  [][\A params \in SoundParams :
       LET config == bucketKeyConfig(buckets, params)
           limited == ~isUnlimited(config) /\ buckets.elevated_limits = <<>>
       IN  /\ (params.count \in BadCounts /\ (Take(params) \/ Put(params))) => Throws
           /\ (params.count \in GoodCounts /\ limited /\ Take(params)) =>
                /\ Sent
                /\ NewRequest.a.tokens_to_take =
                     IF params.count.tag = "absent" THEN 1
                     ELSE IF params.count.tag = "all" THEN config.size
                     ELSE params.count.v
           /\ (params.count \in GoodCounts /\ limited /\ Put(params)) =>
                /\ Sent
                /\ NewRequest.a.tokens_to_take =
                     IF params.count.tag = "int" THEN Min(params.count.v, config.size)
                     ELSE config.size]_vars

\* C26: a call whose params fail the validation (params missing, no type,
\* unknown type, no key, bad configOverride), and a take on a type with
\* elevated limits without erlIsActiveKey, gets the error through its
\* callback after the call has returned, never thrown and never called back
\* inside the call, and changes neither the store nor the caches.
C26_AsyncErrors ==
  [][\A params \in ValidateParams :
       LET config == bucketKeyConfig(buckets, params)
           missingKey == /\ params \in SoundParams /\ params.count \in GoodCounts
                         /\ ~isUnlimited(config)
                         /\ buckets.elevated_limits # <<>> /\ ~params.erlIsActiveKey
       IN  (\/ params \in DefectParams /\ (Take(params) \/ Put(params) \/ Get(params))
            \/ missingKey /\ Take(params)) =>
              /\ Scheduled /\ NewReply.kind = "error" /\ "inCall" \notin DOMAIN NewReply
              /\ UNCHANGED <<requests, S, E, callCounts, buckets>>]_vars

\* C27: no take with a negative count is on its way to the store, and no
\* run of a take routine that does not activate ERL leaves more tokens than
\* the content it found after the refill.
C27_NoNegativeTake ==
  /\ \A i \in 1 .. Len(requests) :
       requests[i].cmd \in {"take", "takeElevated"} => requests[i].a.tokens_to_take >= 0
  /\ (last.cmd \in {"take", "takeElevated"} /\ ~last.set_erl) => last.take <= last.refill

\* C28: after every take or takeElevated that the store runs, the state
\* entry exists with d = the time of the store and its TTL is the ttl of the
\* resolved descriptor, size * interval / per_interval / 1000 seconds
\* rounded up, or the global TTL of the client for a fixed bucket.
C28_StateTtl ==
  [][TakeStep =>
       LET config == Head(requests).config
           seconds == IF config.per_interval > 0
                      THEN CeilDiv(config.size * config.interval,
                                   config.per_interval * MsPerSecond)
                      ELSE CeilDiv(ConfigGlobalTTL, MsPerSecond)
       IN  /\ S'.live
           /\ S'.d = now
           /\ S'.exp = now + seconds * MsPerSecond]_vars

\* a take with a configOverride (size StdSize + 2, 2 per interval) has just
\* renewed the TTL of an entry that an earlier take had written: the TTL is
\* size * interval / per_interval ms rounded up to seconds
C28_Witness ==
  /\ last.cmd \in TakeKinds /\ last.had /\ last.at = now /\ now > 0
  /\ S.live /\ S.d = now
  /\ S.exp # now + CeilDiv(ConfigGlobalTTL, MsPerSecond) * MsPerSecond
  /\ (S.exp - now) * 2 >= (StdSize + 2) * Interval
  /\ (S.exp - now - MsPerSecond) * 2 < (StdSize + 2) * Interval

\* a step in which the store runs a put
PutStep ==
  /\ requests # <<>> /\ requests' = Tail(requests)
  /\ Head(requests).cmd = "put" /\ ~scriptFails(Head(requests))

\* C29 as stated: a put of count tokens leaves min(r + count, size), an
\* absent entry counting as r = size; the result is never above size and a
\* put of 0 leaves r as it was.  The count is the one the caller passed.
C29_Original ==
  [][\A params \in PutParams :
       (Put(params) /\ Sent) =>
         LET config == NewRequest.config
             size == config.size * Scale
             r == IF S.live THEN S.r ELSE size
             count == determineCount(params.count, config.size, config.size)
             after == put_script(S, now, NewRequest.a).S.r
         IN  /\ after = Min(r + count * Scale, size)
             /\ after <= size
             /\ (count = 0 => after = r)]_vars

\* C29: put passes min(count, size) to the store, and the store leaves
\* min(r + min(count, size), size), an absent entry counting as r = size, and
\* replies with that number; the result is never above size, and a put of 0
\* leaves r as it was when r was not above size.
C29_PutCapped ==
  [][/\ \A params \in PutParams :
          (Put(params) /\ Sent) =>
            LET config == NewRequest.config
            IN  /\ NewRequest.cmd = "put"
                /\ NewRequest.a.bucket_size = config.size
                /\ NewRequest.a.tokens_to_take =
                     Min(determineCount(params.count, config.size, config.size), config.size)
     /\ PutStep =>
          LET a == Head(requests).a
              size == a.bucket_size * Scale
              r == IF S.live THEN S.r ELSE size
          IN  /\ a.tokens_to_take <= a.bucket_size
              /\ S'.live
              /\ S'.r = Min(r + a.tokens_to_take * Scale, size)
              /\ S'.r <= size
              /\ Scheduled /\ NewReply.kind = "put" /\ NewReply.raw[1] = S'.r
              /\ (a.tokens_to_take = 0 /\ r <= size => S'.r = r)]_vars

\* the store has just run a put of a positive count on an entry that was
\* below size: the entry gained tokens and is at most full
C29_Witness ==
  /\ last.cmd = "put" /\ last.had /\ last.at = now
  /\ last.count > 0 /\ last.refill < buckets.size * Scale
  /\ last.take > last.refill /\ S.live /\ S.r = last.take /\ S.r <= buckets.size * Scale

\* what the store would answer to the request that this step sends
Outcome ==
  IF NewRequest.cmd = "takeElevated" THEN take_elevated(S, E, now, NewRequest.a)
  ELSE take_standard(S, now, NewRequest.a)

\* the last script the store ran was a put of the whole size, and no take
\* was answered from the cache since
AfterPutAll ==
  /\ last.cmd = "put" /\ last.count = buckets.size * Scale
  /\ callCounts.count = 0

\* C30 as stated: a put with count omitted or 'all' leaves r = size, and the
\* take of 0 <= c <= size tokens that follows it goes to the store, is
\* conformant and returns remaining = size - c.
C30_Original ==
  [][/\ \A params \in PutParams :
          (Put(params) /\ Sent /\ params.count.tag \in {"absent", "all"}) =>
            put_script(S, now, NewRequest.a).S.r = NewRequest.config.size * Scale
     /\ \A params \in PutParams :
          LET c == determineCount(params.count, 1, buckets.size)
          IN  (Take(params) /\ AfterPutAll /\ c \in 0 .. buckets.size
               /\ ~(buckets.elevated_limits # <<>> /\ ~params.erlIsActiveKey)) =>
                /\ Sent
                /\ ParseBool(Outcome.raw[2])
                /\ Trunc(Outcome.raw[1]) = buckets.size - c]_vars

\* C30: a put with count omitted or 'all' passes size to the store and
\* leaves min(r + size, size): the bucket is full, and the put returns
\* remaining = size, when the entry was absent or r >= 0.  On a descriptor
\* without skip_n_calls the take of 0 <= c <= size tokens that follows such
\* a put is conformant; it returns remaining = size - c when ERL is not
\* active and at least size - c when it is.
C30_RestoreFull ==
  [][/\ \A params \in PutParams :
          (Put(params) /\ Sent /\ params.count.tag \in {"absent", "all"}) =>
            NewRequest.a.tokens_to_take = NewRequest.config.size
     /\ (PutStep /\ Head(requests).a.tokens_to_take = Head(requests).a.bucket_size) =>
          LET size == Head(requests).a.bucket_size * Scale
              r == IF S.live THEN S.r ELSE size
          IN  /\ S'.r = Min(r + size, size)
              /\ r >= 0 => (S'.r = size /\ NewReply.raw[1] = size)
     /\ (/\ TakeStep
         /\ last.cmd = "put"
         /\ last.count = Head(requests).a.bucket_size * Scale
         /\ last.take = Head(requests).a.bucket_size * Scale
         /\ Head(requests).config.skip_n_calls = 0
         /\ Head(requests).a.tokens_to_take \in 0 .. Head(requests).a.bucket_size) =>
          LET a == Head(requests).a
          IN  /\ Scheduled
              /\ ParseBool(NewReply.raw[2])
              /\ Trunc(NewReply.raw[1]) >= a.bucket_size - a.tokens_to_take
              /\ ~E.live => Trunc(NewReply.raw[1]) = a.bucket_size - a.tokens_to_take]_vars

\* a put of the whole size has refilled an entry that was not full, and the
\* take of size tokens that follows it is on its way to the store
C30_Witness ==
  /\ last.cmd = "put" /\ last.had /\ last.count = buckets.size * Scale
  /\ last.refill >= 0 /\ last.refill < buckets.size * Scale
  /\ last.take = buckets.size * Scale /\ S.live /\ S.r = buckets.size * Scale
  /\ requests # <<>> /\ Head(requests).cmd \in TakeKinds
  /\ Head(requests).config.skip_n_calls = 0
  /\ Head(requests).a.tokens_to_take = Head(requests).a.bucket_size

\* the result a get of the key would be given by the store in this state
GetConfig == bucketKeyConfig(buckets, [key |-> key])
GetView ==
  IF isUnlimited(GetConfig) THEN UnlimitedRes(GetConfig, FALSE)
  ELSE Decode(Reply("hmget", FALSE, hmget(S).raw, GetConfig, NoRes))
\* a step in which the store runs the HMGET of a get
HmgetStep == requests # <<>> /\ requests' = Tail(requests) /\ Head(requests).cmd = "hmget"
\* a step in which the store runs a command that writes
MutationStep ==
  requests # <<>> /\ requests' = Tail(requests) /\ Head(requests).cmd # "hmget"
\* the callback of a get runs in this step
GetServed ==
  /\ replies # <<>> /\ replies' = Tail(replies)
  /\ Head(replies).kind \in {"hmget", "localGet"}

\* C31 as stated: get writes neither the store nor the caches (the call
\* cache, the cache of regex matches); with no state entry it returns
\* remaining = limit = size; and as long as no take or put runs at the store
\* the result of a get keeps its remaining and its limit, and its reset
\* does not go down.
C31_Original ==
  [][/\ \A params \in GetParams :
          Get(params) => UNCHANGED <<S, E, callCounts, buckets>>
     /\ (HmgetStep \/ GetServed) => UNCHANGED <<S, E, callCounts, buckets>>
     /\ (HmgetStep /\ ~S.live) =>
          /\ Decode(NewReply).remaining = Head(requests).config.size
          /\ Decode(NewReply).limit = Head(requests).config.size
     /\ ~MutationStep =>
          /\ GetView'.remaining = GetView.remaining
          /\ GetView'.limit = GetView.limit
          /\ GetView'.reset >= GetView.reset]_vars

\* C31: get writes neither the store nor the call cache, and changes
\* nothing of the type but the cache of regex matches; with no state entry
\* it returns remaining = limit = size; and as long as no take or put runs
\* at the store and the TTL of the entry has not elapsed, the result of a
\* get keeps its remaining and its limit, and its reset does not go down.
C31_GetReadOnly ==
  [][/\ \A params \in GetParams :
          Get(params) =>
            /\ UNCHANGED <<S, E, callCounts>>
            /\ buckets' = [buckets EXCEPT !.overridesCache = buckets'.overridesCache]
     /\ (HmgetStep \/ GetServed) => UNCHANGED <<S, E, callCounts, buckets>>
     /\ (HmgetStep /\ ~S.live) =>
          /\ Decode(NewReply).remaining = Head(requests).config.size
          /\ Decode(NewReply).limit = Head(requests).config.size
     /\ (~MutationStep /\ (S.live => S'.live)) =>
          /\ GetView'.remaining = GetView.remaining
          /\ GetView'.limit = GetView.limit
          /\ GetView'.reset >= GetView.reset]_vars

\* the store has answered a get of an entry that holds less than the size,
\* at a later time than the entry was written
C31_Witness ==
  /\ replies # <<>> /\ Head(replies).kind = "hmget" /\ ~Head(replies).err
  /\ S.live /\ now > S.d
  /\ Decode(Head(replies)).remaining < Head(replies).config.size
  /\ Decode(Head(replies)) = GetView

\* the reset of a result is well formed at the time of the call: 0 for a
\* fixed bucket, otherwise seconds that are not before the call
ResetOk(config, res) ==
  IF config.per_interval = 0 THEN res.reset = 0
  ELSE res.reset * MsPerSecond >= now
\* the result of the call of this step when the store serves it at once
ResultAtOnce ==
  IF ~Sent THEN Decode(NewReply)
  ELSE IF NewRequest.cmd \in TakeKinds
  THEN Decode(Reply(NewRequest.cmd, FALSE, Outcome.raw, NewRequest.config, NoRes))
  ELSE IF NewRequest.cmd = "put"
  THEN Decode(Reply("put", FALSE, put_script(S, now, NewRequest.a).raw, NewRequest.config, NoRes))
  ELSE Decode(Reply("hmget", FALSE, hmget(S).raw, NewRequest.config, NoRes))

\* C32: the result of every take, takeElevated, put and get has reset = 0
\* when the resolved bucket is fixed and otherwise a reset, in seconds, that
\* is not earlier than the time of the call (shown for calls that the store
\* serves at the time of the call, and for results the client builds
\* itself).
C32_ResetNotPast ==
  [][\A params \in GetParams :
       (/\ Take(params) \/ Put(params) \/ Get(params)
        /\ Sent \/ (Scheduled /\ ~NewReply.err)) =>
         ResetOk(bucketKeyConfig(buckets, params), ResultAtOnce)]_vars

\* the callback of the take of a wait runs and wait calls back
WaitReturns ==
  /\ replies # <<>> /\ replies' = Tail(replies)
  /\ waiting.phase = "take" /\ waiting'.phase = "idle"
\* the callback of the take of a wait runs and wait sets its timer
WaitSleeps ==
  /\ replies # <<>> /\ replies' = Tail(replies)
  /\ waiting.phase = "take" /\ waiting'.phase = "sleep"
\* C33: wait calls back with an error or with a conformant result; the
\* result has delayed = true exactly when a retry was scheduled before it,
\* and delayed = false otherwise; on a refilling bucket each retry of a
\* wait for an integer count is due ceil((count - remaining) * interval /
\* per_interval) ms after the callback of the denied take (a timer of less
\* than 1 ms is one of 1 ms).
C33_Wait ==
  [][/\ (WaitReturns /\ ~Head(replies).err) =>
          /\ Decode(Head(replies)).conformant
          /\ (Decode(Head(replies)).delayed \/ waiting.delayed) <=> waiting.delayed
     /\ (/\ WaitSleeps
         /\ Head(replies).config.per_interval > 0
         /\ waiting.params.count.tag = "int") =>
          waiting'.due - now =
            Max(CeilDiv((waiting.params.count.v - Decode(Head(replies)).remaining)
                          * Head(replies).config.interval,
                        Head(replies).config.per_interval), 1)]_vars

\* the wait in progress is one for at most the size on a refilling bucket
WaitCanSucceed ==
  /\ waiting.phase # "idle"
  /\ buckets.per_interval > 0
  /\ waiting.params.count.tag = "int" => waiting.params.count.v <= buckets.size
\* the wait in progress is one on a fixed bucket, or for more than the size
WaitCannotSucceed ==
  /\ waiting.phase # "idle"
  /\ \/ buckets.per_interval = 0
     \/ waiting.params.count.tag = "int" /\ waiting.params.count.v > buckets.size
\* the timer of a wait fires
RetryStep == waiting.phase = "sleep" /\ waiting'.phase = "take"

\* C34: under fair scheduling and with no other consumer while it runs, a
\* wait for at most the size on a refilling bucket eventually calls back,
\* and its timer fires at most once; a wait on a fixed bucket or for more
\* than the size never calls back after a retry (the scenario has no put
\* and no error).
C34_WaitTerminates ==
  /\ [][(RetryStep /\ WaitCanSucceed) => ~waiting.delayed]_vars
  /\ [][(WaitReturns /\ WaitCannotSucceed) => ~waiting.delayed]_vars
  /\ WaitCanSucceed ~> waiting.phase = "idle"

\* the callback of resetAll runs in this step
ResetCompletes ==
  replies # <<>> /\ replies' = Tail(replies) /\ Head(replies).kind = "flushdb"
\* the result that a take of 1 token of the key is given in this state,
\* when the store serves it at once
TakeOne ==
  LET config == bucketKeyConfig(buckets, [key |-> key])
      found == config.skip_n_calls > 0 /\ callCounts.has
      count == scaledCount(1, config, found)
  IN  IF isUnlimited(config) THEN UnlimitedRes(config, TRUE)
      ELSE IF found /\ ~shouldGoToRedis(callCounts, config) THEN callCounts.res
      ELSE IF buckets.elevated_limits # <<>>
      THEN Decode(Reply("takeElevated", FALSE,
                        take_elevated(S, E, now, TakeElevatedArgs(config, count)).raw,
                        config, NoRes))
      ELSE Decode(Reply("take", FALSE, take_standard(S, now, TakeArgs(config, count)).raw,
                        config, NoRes))

\* C35: when resetAll has called back, the next take of 1 token of the key,
\* through the same client, is conformant and returns remaining = size - 1.
C35_ResetAll ==
  [][ResetCompletes =>
       /\ TakeOne'.conformant
       /\ TakeOne'.remaining = buckets.size - 1]_vars

\* the store runs a takeElevated while E is absent and does not create it
LostErlStep == ElevatedStep /\ ~E.live /\ ~E'.live
\* the stored content is within the standard bucket
InStandardRange(entry) == 0 <= entry.r /\ entry.r <= Head(requests).a.bucket_size * Scale

\* C36: a take of a bucket with elevated limits that runs with E absent
\* and does not activate ERL caps a stored r above the standard size at the
\* size first, so that the remaining returned and stored is at most the
\* size and not negative; from then on every such take leaves r within
\* [0, size].
C36_ErlLost ==
  [][LostErlStep =>
       /\ (S.live /\ S.r > Head(requests).a.bucket_size * Scale) =>
            /\ last'.refill = Head(requests).a.bucket_size * Scale
            /\ InStandardRange(S')
            /\ StepResult.remaining <= Head(requests).a.bucket_size
            /\ StepResult.remaining * Scale <= S'.r
       /\ (S.live /\ InStandardRange(S)) => InStandardRange(S')]_vars

\* E was lost while the state held more than the standard size, and a take
\* has run since and was granted from the capped content
C36_Witness ==
  /\ last.cmd = "takeElevated" /\ ~last.erl0 /\ ~last.erl1 /\ last.had
  /\ last.r0 > SizeU /\ last.refill = SizeU /\ last.enough
  /\ S.live /\ S.r = last.take /\ S.r < SizeU

\* the TTL of the state entry elapses in this step
ExpiryStep == S.live /\ ~S'.live /\ now' > now
\* the times from t on that the clock reaches
TimesFrom(t) == {u \in {t + k * Quantum : k \in 0 .. (MaxTime \div Quantum)} : u <= MaxTime}
\* the ERL entry at time t, when nothing touches it
ErlAt(entry, t) == IF expired(entry, t) THEN NoE ELSE entry
\* the result of a take of n tokens of the key that the store runs at time
\* t on the entries curS and curE
TakeAt(curS, curE, t, n) ==
  LET config == bucketKeyConfig(buckets, [key |-> key])
  IN  IF buckets.elevated_limits # <<>>
      THEN Decode(Reply("takeElevated", FALSE,
                        take_elevated(curS, curE, t, TakeElevatedArgs(config, n)).raw,
                        config, NoRes))
      ELSE Decode(Reply("take", FALSE, take_standard(curS, t, TakeArgs(config, n)).raw,
                        config, NoRes))

\* C37: when the TTL of the state entry elapses, a take that runs then or
\* later returns the conformant and the remaining it would return had the
\* entry been kept.
C37_ExpiryUnobservable ==
  [][ExpiryStep =>
       \A t \in TimesFrom(now') : \A n \in 1 .. Max(buckets.size, ErlSizeT) :
         /\ TakeAt(S', ErlAt(E', t), t, n).conformant = TakeAt(S, ErlAt(E', t), t, n).conformant
         /\ TakeAt(S', ErlAt(E', t), t, n).remaining = TakeAt(S, ErlAt(E', t), t, n).remaining]_vars

\* C38: every result that take, takeElevated, put or get passes to its
\* callback has remaining <= limit.
C38_RemainingWithinLimit ==
  \A i \in 1 .. Len(replies) :
    ~replies[i].err => Decode(replies[i]).remaining <= Decode(replies[i]).limit

\* the type defines a literal override of this name
HasLiteral(type, k) == \E i \in 1 .. Len(type.overrides) : type.overrides[i].name = k
\* the first regex override in definition order that matches the key, or
\* the type
FirstMatchOrType(type, k) ==
  LET hits == {i \in 1 .. Len(type.overridesMatch) : Matches(type.overridesMatch[i].match, k)}
  IN  IF hits = {} THEN type
      ELSE type.overridesMatch[CHOOSE i \in hits : \A j \in hits : i <= j]
\* the cache of regex matches holds at most 50 keys, each with the first
\* regex override that matches it
CacheSound(type) ==
  /\ Len(type.overridesCache) <= OVERRIDES_CACHE_MAX
  /\ \A i \in 1 .. Len(type.overridesCache) :
       /\ fromMatch(type, type.overridesCache[i].key) # <<>>
       /\ type.overridesCache[i].override = FirstMatchOrType(type, type.overridesCache[i].key)

\* C39: for a key without a literal override and a call without
\* configOverride the resolver returns the first regex override in
\* definition order that matches the key, or the type, with the key cached
\* or not; the cache holds at most 50 keys, none that matches no pattern,
\* and is empty after the type is configured again.
C39_MatchCache ==
  [][/\ ~HasLiteral(buckets', key) =>
          bucketKeyConfig(buckets', [key |-> key]) = FirstMatchOrType(buckets', key)
     /\ CacheSound(buckets')
     /\ (\E bucket \in ResolveTypeDefs : Configure(bucket)) => buckets'.overridesCache = <<>>]_vars

\* the tokens that the store has deducted from the fixed bucket, in units
Deducted == IF S.live THEN SizeU - S.r ELSE 0

\* C40: whatever the interleaving of the takes of one key and of the
\* replies of the store, the tokens deducted at the store are at most the
\* count times the number of takes issued.
C40_NoOverCharge == Deducted <= granted.count * Scale * granted.issued

====
